---- MODULE Spec2Model ----
\* SUMA reliable-delivery pipeline: provider webhook (api/webhook.ts, thin
\* handler), QStash broker, worker (api/process-message.ts), idempotency
\* ledger (processed_messages) and the HMAC signature verifier.
EXTENDS Integers, Sequences, FiniteSets, TLC

\* --------------------------------------------------------------------------
\* Bounds of the model
\* --------------------------------------------------------------------------
NumMsgs == 2          \* provider message ids (wamid) 1..NumMsgs
NumBodies == 5        \* distinct raw request bodies 1..NumBodies
NumWorkers == 2       \* worker invocations that may be in flight at once
MaxUnits == 1         \* units published to the broker in the pipeline specification
MaxDeliveries == 2    \* deliveries (first ones and retries) the broker makes in all
MaxCalls == 2         \* calls of verifyQStashSignature in one process
NumSavers == 2        \* calls of saveExpenseAsTransaction that may overlap
MaxStorageErrors == 1 \* storage calls of the repository that may fail
MaxOverlong == 2      \* characters an error message may have over the limit of the ledger
MaxAmountChars == 2   \* characters of the amount written in a message
DigestBytes == 2      \* bytes of a MAC digest (32 for SHA-256)

MsgIds == 1..NumMsgs
RawBodies == 1..NumBodies
NotJson == NumBodies + 1       \* a body that is not JSON text
NoMetadata == NumBodies + 2    \* a body whose "messages" change has no metadata
PostBodies == RawBodies \cup {NotJson, NoMetadata}
WorkerIds == 1..NumWorkers
SaverIds == 1..NumSavers

\* --------------------------------------------------------------------------
\* Strings are sequences of characters
\* --------------------------------------------------------------------------
HexChars == {"0", "a", "A", "g"}   \* "g" is not a hex digit
Tag256 == <<"s", "h", "a", "2", "5", "6", "=">>
Tag1 == <<"s", "h", "a", "1", "=">>
Undefined == <<"undefined">>        \* header absent

\* s.startsWith(p)
StartsWith(s, p) ==
    /\ Len(s) >= Len(p)
    /\ SubSeq(s, 1, Len(p)) = p

\* s.slice(n)
Slice(s, n) == SubSeq(s, n + 1, Len(s))

\* value of one hex digit, -1 when the character is no hex digit
HexVal(c) ==
    CASE c = "0" -> 0
      [] c = "a" -> 10
      [] c = "A" -> 10
      [] OTHER -> -1

\* lower-case hex digit of a nibble, as digest("hex") prints it
HexDigit(n) == IF n = 10 THEN "a" ELSE "0"

\* digest("hex"): two lower-case digits per byte
RECURSIVE ToHex(_)
ToHex(bytes) ==
    IF bytes = <<>> THEN <<>>
    ELSE <<HexDigit(Head(bytes) \div 16), HexDigit(Head(bytes) % 16)>>
             \o ToHex(Tail(bytes))

\* Buffer.from(s, "hex"): decodes pairs of digits, either case, and stops at
\* the first pair that is not hex (the result is then shorter)
RECURSIVE BufferFromHex(_)
BufferFromHex(s) ==
    IF Len(s) < 2 THEN <<>>
    ELSE IF HexVal(s[1]) < 0 \/ HexVal(s[2]) < 0 THEN <<>>
    ELSE <<16 * HexVal(s[1]) + HexVal(s[2])>> \o BufferFromHex(Slice(s, 2))

\* The byte values the model's digests are made of
ByteOf(d) == CASE d = 0 -> 0 [] d = 1 -> 10 [] d = 2 -> 160 [] OTHER -> 170

RECURSIVE Pow(_, _)
Pow(b, e) == IF e = 0 THEN 1 ELSE b * Pow(b, e - 1)

\* createHmac("sha256", secret).update(rawBody).digest(): a keyed digest of
\* DigestBytes bytes, different for different (secret, body) of the model
AppSecret == "WHATSAPP_APP_SECRET"
OtherSecret == "other secret"
Secrets == {AppSecret, OtherSecret}
createHmac(secret, rawBody) ==
    LET code == (IF secret = AppSecret THEN 0 ELSE NumBodies + 3) + rawBody
    IN  [i \in 1..DigestBytes |-> ByteOf((code \div Pow(4, i - 1)) % 4)]

\* timingSafeEqual(a, b): throws a RangeError when the byte lengths differ
timingSafeEqual(a, b) ==
    IF Len(a) # Len(b) THEN "RangeError"
    ELSE IF a = b THEN "true" ELSE "false"

\* validateWebhookSignature with the final comparison skipped: only the
\* prefix and the length of the digest are looked at
validateWebhookSignatureLengthOnly(rawBody, signature, appSecret) ==
    IF signature = Undefined \/ ~StartsWith(signature, Tag256) THEN "false"
    ELSE IF Len(ToHex(createHmac(appSecret, rawBody)))
               # Len(Slice(signature, Len(Tag256))) THEN "false"
    ELSE "true"

\* validateWebhookSignature(rawBody, signature, appSecret)
validateWebhookSignature(rawBody, signature, appSecret) ==
    IF signature = Undefined \/ ~StartsWith(signature, Tag256) THEN "false"
    ELSE LET expectedHash == ToHex(createHmac(appSecret, rawBody))
             receivedHash == Slice(signature, Len(Tag256))
         IN  IF Len(expectedHash) # Len(receivedHash) THEN "false"
             ELSE timingSafeEqual(BufferFromHex(expectedHash),
                                  BufferFromHex(receivedHash))

\* The header the provider sends for a body: the tag and the lower-case digest
SignHeader(rawBody, secret) == Tag256 \o ToHex(createHmac(secret, rawBody))

\* All character strings over HexChars of length 0..n
RECURSIVE HexStrings(_)
HexStrings(n) ==
    IF n = 0 THEN {<<>>}
    ELSE LET shorter == HexStrings(n - 1)
         IN  shorter \cup {Append(s, c) : s \in {t \in shorter : Len(t) = n - 1},
                                           c \in HexChars}

\* Signature headers tried against the verifier
AllHeaders ==
    {Undefined} \cup {t \o h : t \in {Tag256, Tag1}, h \in HexStrings(2 * DigestBytes + 1)}

\* --------------------------------------------------------------------------
\* State
\* --------------------------------------------------------------------------
VARIABLES
    ingress,             \* the thin webhook handler's invocation
    queue,               \* QStash: the state of the unit of each wamid
    deliveries,          \* deliveries QStash has made so far
    workers,             \* worker invocations (api/process-message.ts)
    processed_messages,  \* table processed_messages, keyed by wamid
    transactions,        \* rows of table transactions, counted per wamid
    sent,                \* WhatsApp replies delivered, per wamid
    claims,              \* calls of claimMessageId that returned true, per wamid
    abandoned,           \* wamids whose claiming invocation died before it answered
    response,            \* the answer a worker invocation gave in the last step
    sigCall,             \* one call of validateWebhookSignature and its result
    config,              \* config.ts: cached, the AppConfig loadConfig keeps (the
                         \* fields used here)
    env,                 \* process.env: the names of the variables that are set
    receiverInstance,    \* qstash.ts: the cached Receiver of the process
    verifyCalls,         \* the calls of verifyQStashSignature made so far
    fetchCall,           \* one call of fetchWithRetry
    getCall,             \* one GET request to the webhook and its answer
    accounts,            \* table accounts
    categories,          \* table categories
    transactionRows,     \* table transactions: the rows saveExpenseAsTransaction inserted
    saves,               \* the calls of saveExpenseAsTransaction
    storageErrors,       \* storage calls of the repository that failed so far
    rawCall,             \* one request and the string its handler hands to the verifier
    errorCall,           \* one call of markMessageError: the message it is given
    parseCall,           \* one call of the expense parser and its result
    syncCall             \* one request to the synchronous webhook handler (api/webhook.ts)

vars == <<ingress, queue, deliveries, workers, processed_messages, transactions, sent, claims,
          abandoned, response, sigCall, config, env, receiverInstance, verifyCalls,
          fetchCall, getCall, accounts, categories, transactionRows, saves,
          storageErrors, rawCall, errorCall, parseCall, syncCall>>

\* what a step of the rest of the program leaves alone
repository == <<accounts, categories, transactionRows, saves, storageErrors>>

\* single calls of the worker handler's entry and of pure functions
calls == <<rawCall, errorCall, parseCall, syncCall>>
side == <<config, env, verifyCalls, fetchCall, getCall, repository, calls>>

\* the same, for a step that calls loadConfig
others == <<env, verifyCalls, fetchCall, getCall, repository, calls>>

pipeline == <<deliveries, workers, processed_messages, transactions, sent, claims, abandoned,
              response>>

NoRow == [exists |-> FALSE, processed |-> FALSE, error |-> "null"]
NoRes == [status |-> 0, body |-> "none", count |-> 0]
Res(status, body) == [status |-> status, body |-> body, count |-> 0]
IdleIngress ==
    [pc |-> "idle", rawBody |-> 0, signature |-> Undefined, items |-> <<>>,
     results |-> <<>>, res |-> NoRes]
IdleWorker ==
    [pc |-> "idle", wamid |-> 0, caller |-> "none", type |-> "none",
     claimed |-> "none", parsed |-> "none"]
NoResponse ==
    [wamid |-> 0, caller |-> "none", signature |-> "none", type |-> "none",
     claimed |-> "none", parsed |-> "none", ledger |-> "none", status |-> 0,
     body |-> "none"]

\* --------------------------------------------------------------------------
\* Configuration (src/utils/config.ts)
\* --------------------------------------------------------------------------
REQUIRED_VARS ==
    {"WHATSAPP_VERIFY_TOKEN", "WHATSAPP_API_TOKEN", "WHATSAPP_PHONE_NUMBER_ID",
     "WHATSAPP_APP_SECRET", "SUPABASE_URL", "SUPABASE_SERVICE_ROLE_KEY", "QSTASH_TOKEN",
     "QSTASH_CURRENT_SIGNING_KEY", "QSTASH_NEXT_SIGNING_KEY"}

\* the variables a deployment sets: the required ones and the optional key of
\* the language model
ProcessEnv == REQUIRED_VARS \cup {"GEMINI_API_KEY"}

\* let cached: AppConfig | null = null
NoConfig ==
    [QSTASH_CURRENT_SIGNING_KEY |-> "undefined", QSTASH_NEXT_SIGNING_KEY |-> "undefined",
     WHATSAPP_VERIFY_TOKEN |-> "undefined", GEMINI_API_KEY |-> "undefined"]

\* the AppConfig read from process.env (the fields used here)
AppConfigOf(processEnv) ==
    [QSTASH_CURRENT_SIGNING_KEY |-> "current", QSTASH_NEXT_SIGNING_KEY |-> "next",
     WHATSAPP_VERIFY_TOKEN |-> "verify_token",
     GEMINI_API_KEY |-> IF "GEMINI_API_KEY" \in processEnv THEN "gemini_key"
                        ELSE "undefined"]

\* the configuration of a deployment that sets every variable
AppConfig == AppConfigOf(ProcessEnv)

\* the loader of the synchronous handler: five required variables
loadConfigFiveVars(cached, processEnv) ==
    LET missing == {key \in {"WHATSAPP_VERIFY_TOKEN", "WHATSAPP_API_TOKEN",
                             "WHATSAPP_PHONE_NUMBER_ID", "SUPABASE_URL",
                             "SUPABASE_SERVICE_ROLE_KEY"} : key \notin processEnv}
    IN  IF missing # {} THEN [ret |-> "throw", cached |-> cached]
        ELSE [ret |-> "config", cached |-> AppConfigOf(processEnv)]

\* loadConfig: the cached configuration when there is one; otherwise an Error
\* when a required variable is not set, and the configuration read from
\* process.env, which is cached
loadConfig(cached, processEnv) ==
    LET missing == {key \in REQUIRED_VARS : key \notin processEnv}
    IN  IF cached # NoConfig THEN [ret |-> "config", cached |-> cached]
        ELSE IF missing # {} THEN [ret |-> "throw", cached |-> cached]
        ELSE [ret |-> "config", cached |-> AppConfigOf(processEnv)]

NoCall == [rawBody |-> 0, signature |-> Undefined, result |-> "none"]

\* msg.type, whether msg.text.body is present and whether msg.audio is present
PayloadKinds == {"text", "text_nobody", "audio", "audio_nomedia", "image", "sticker"}

\* --------------------------------------------------------------------------
\* Ingress handler (thin webhook)
\* --------------------------------------------------------------------------
WhatsAppTag == "whatsapp_business_account"

\* The messages a body carries: message m is in body b >= 3 when bit m-1 of
\* b-2 is set
RECURSIVE MsgSeq(_, _)
MsgSeq(k, m) ==
    IF m > NumMsgs THEN <<>>
    ELSE (IF (k \div Pow(2, m - 1)) % 2 = 1 THEN <<m>> ELSE <<>>) \o MsgSeq(k, m + 1)

\* A change of an entry: its field and the messages its value carries
Change(field, messages) == [field |-> field, messages |-> messages, metadata |-> TRUE]
\* the same without value.metadata
ChangeWithoutMetadata(field, messages) ==
    [field |-> field, messages |-> messages, metadata |-> FALSE]

\* JSON.parse(rawBody): body 1 is an object of another product that carries a
\* message, body 2 carries a delivery-status callback (field "messages", no
\* messages array) and a change of another field, the others carry their
\* messages in "messages" changes spread over one or two entries, next to
\* changes of other fields
JSONparse(rawBody) ==
    IF rawBody = NotJson THEN [object |-> "SyntaxError", entry |-> <<>>]
    ELSE IF rawBody = NoMetadata
    THEN [object |-> WhatsAppTag,
          entry |-> << <<Change("statuses", <<>>),
                         ChangeWithoutMetadata("messages", <<1>>)>> >>]
    ELSE IF rawBody = 1
    THEN [object |-> "page", entry |-> << <<Change("messages", <<1>>)>> >>]
    ELSE IF rawBody = 2
    THEN [object |-> WhatsAppTag,
          entry |-> << <<Change("messages", <<>>)>>,
                       <<Change("account_update", <<1>>)>> >>]
    ELSE LET msgs == MsgSeq(rawBody - 2, 1)
         IN  [object |-> WhatsAppTag,
              entry |-> << <<Change("statuses", <<>>),
                             Change("messages", <<Head(msgs)>>)>> >>
                        \o (IF Len(msgs) > 1
                            THEN << <<Change("account_update", <<Head(msgs)>>),
                                      Change("messages", Tail(msgs))>> >>
                            ELSE <<>>)]

\* the messages of every change, whatever its field
RECURSIVE ItemsOfChangesAnyField(_)
ItemsOfChangesAnyField(changes) ==
    IF changes = <<>> THEN <<>>
    ELSE Head(changes).messages \o ItemsOfChangesAnyField(Tail(changes))

\* extractMessageItems: one item per message of every change whose field is
\* "messages"
RECURSIVE ItemsOfChanges(_)
ItemsOfChanges(changes) ==
    IF changes = <<>> THEN <<>>
    ELSE (IF Head(changes).field # "messages" THEN <<>> ELSE Head(changes).messages)
             \o ItemsOfChanges(Tail(changes))

RECURSIVE ItemsOfEntries(_)
ItemsOfEntries(entry) ==
    IF entry = <<>> THEN <<>>
    ELSE ItemsOfChanges(Head(entry)) \o ItemsOfEntries(Tail(entry))

extractMessageItems(body) == ItemsOfEntries(body.entry)

\* JSON.parse throws a SyntaxError for a text that is not JSON
JSONparseThrows(rawBody) == rawBody = NotJson

\* extractMessageItems throws a TypeError at change.value.metadata.phone_number_id
\* for a message of a "messages" change without metadata
extractMessageItemsThrows(body) ==
    \E i \in 1..Len(body.entry) : \E j \in 1..Len(body.entry[i]) :
        LET change == body.entry[i][j]
        IN  change.field = "messages" /\ change.messages # <<>> /\ ~change.metadata

\* Signature headers a POST may carry for a body: none, the provider's, the
\* provider's in upper case, one made for another body, one made with
\* another secret, another tag, and a digest of the right length that is not hex
UpperCase(s) == [i \in 1..Len(s) |-> IF s[i] = "a" THEN "A" ELSE s[i]]
NotHex(n) == [i \in 1..n |-> "g"]
PostHeaders(rawBody) ==
    {Undefined,
     SignHeader(rawBody, AppSecret),
     Tag256 \o UpperCase(ToHex(createHmac(AppSecret, rawBody))),
     SignHeader((rawBody % NumBodies) + 1, AppSecret),
     SignHeader(rawBody, OtherSecret),
     Tag1 \o ToHex(createHmac(AppSecret, rawBody)),
     Tag256 \o NotHex(2 * DigestBytes)}

\* publishToQStash as the broker sees it: a new unit is accepted; a unit with
\* a known Upstash-Deduplication-Id is dropped
publishToQStash(q, wamid) ==
    IF q[wamid] = "none" THEN [q EXCEPT ![wamid] = "pending"] ELSE q

\* the publishes are not awaited: the handler may answer at any time
EnqueueSettledNotAwaited(results) == TRUE

\* Promise.all instead of Promise.allSettled: the first rejection decides
EnqueueSettledAll(results) ==
    \/ \E i \in 1..Len(results) : results[i] = "rejected"
    \/ \A i \in 1..Len(results) : results[i] # "pending"

\* await Promise.allSettled(...): every publish has settled
EnqueueSettled(results) == \A i \in 1..Len(results) : results[i] # "pending"

\* count = number of fulfilled publishes, and an error when one was rejected
EnqueueResponseFulfilled(items, results) ==
    IF \E i \in 1..Len(results) : results[i] = "rejected"
    THEN Res(500, "unhandled")
    ELSE [status |-> 200, body |-> "queued",
          count |-> Cardinality({i \in 1..Len(results) : results[i] = "fulfilled"})]

\* res.status(200).json({ status: "queued", count: items.length })
EnqueueResponse(items, results) ==
    [status |-> 200, body |-> "queued", count |-> Len(items)]

\* every object is taken for the provider's
ExpectedObjectAny(body) == TRUE

\* body.object !== "whatsapp_business_account" is answered 'ignored'
ExpectedObject(body) == body.object = WhatsAppTag

\* a handler that, like the synchronous one of api/webhook.ts, processes
\* every message inside the request and then answers 200 'received'
handleIncomingWebhookSync(rawBody, signature) ==
    /\ ingress.pc \in {"idle", "done"}
    /\ LET body == JSONparse(rawBody)
           items == IF ExpectedObject(body) THEN extractMessageItems(body) ELSE <<>>
           req == [IdleIngress EXCEPT !.rawBody = rawBody, !.signature = signature]
           among(m) == \E i \in 1..Len(items) : items[i] = m
       IN  /\ config' = loadConfig(config, env).cached
           /\ ingress' = [req EXCEPT !.pc = "done", !.res = Res(200, "received")]
           /\ transactions' = [m \in MsgIds |-> IF among(m) THEN transactions[m] + 1
                                                ELSE transactions[m]]
           /\ sent' = [m \in MsgIds |-> IF among(m) THEN Append(sent[m], "confirm")
                                        ELSE sent[m]]
    /\ UNCHANGED <<queue, deliveries, workers, processed_messages, claims, abandoned,
                   response, sigCall, receiverInstance, others>>

\* handleIncomingWebhook up to its first publish
handleIncomingWebhook(rawBody, signature) ==
    /\ ingress.pc \in {"idle", "done"}
    /\ LET loaded == loadConfig(config, env)
           valid == validateWebhookSignature(rawBody, signature, AppSecret)
           body == JSONparse(rawBody)
           items == extractMessageItems(body)
           req == [IdleIngress EXCEPT !.rawBody = rawBody, !.signature = signature]
       IN  /\ config' = loaded.cached
           /\ ingress' =
             IF loaded.ret = "throw" \/ valid = "RangeError"
             THEN [req EXCEPT !.pc = "done", !.res = Res(500, "unhandled")]
             ELSE IF valid # "true"
             THEN [req EXCEPT !.pc = "done", !.res = Res(401, "Invalid signature")]
             ELSE IF JSONparseThrows(rawBody)
             THEN [req EXCEPT !.pc = "done", !.res = Res(500, "unhandled")]
             ELSE IF ~ExpectedObject(body)
             THEN [req EXCEPT !.pc = "done", !.res = Res(200, "ignored")]
             ELSE IF extractMessageItemsThrows(body)
             THEN [req EXCEPT !.pc = "done", !.res = Res(500, "unhandled")]
             ELSE IF Len(items) = 0
             THEN [req EXCEPT !.pc = "done", !.res = Res(200, "no_messages")]
             ELSE [req EXCEPT !.pc = "publishing", !.items = items,
                              !.results = [i \in 1..Len(items) |-> "pending"]]
    /\ UNCHANGED <<queue, pipeline, sigCall, receiverInstance, others>>

IngressPost ==
    \E rawBody \in PostBodies : \E signature \in PostHeaders(rawBody) :
        handleIncomingWebhook(rawBody, signature)

\* One publish settles: the broker accepts it, or the call fails
PublishSettle ==
    /\ ingress.pc = "publishing"
    /\ \E i \in 1..Len(ingress.items) : \E ok \in BOOLEAN :
        /\ ingress.results[i] = "pending"
        /\ ingress' = [ingress EXCEPT
                          !.results[i] = IF ok THEN "fulfilled" ELSE "rejected"]
        /\ queue' = IF ok THEN publishToQStash(queue, ingress.items[i]) ELSE queue
    /\ UNCHANGED <<pipeline, sigCall, receiverInstance, side>>

\* The handler answers once the publishes have settled
IngressRespond ==
    /\ ingress.pc = "publishing"
    /\ EnqueueSettled(ingress.results)
    /\ ingress' = [ingress EXCEPT !.pc = "done",
                      !.res = EnqueueResponse(ingress.items, ingress.results)]
    /\ UNCHANGED <<queue, pipeline, sigCall, receiverInstance, side>>

\* GET: the verification handshake. req.query values: a string or undefined
QueryModes == {"subscribe", "unsubscribe", "undefined"}
QueryTokens == {"verify_token", "another_token", "undefined"}
QueryChallenges == {"challenge_1", "challenge_2", "undefined"}

NoGet ==
    [mode |-> "none", token |-> "none", challenge |-> "none",
     res |-> [status |-> 0, body |-> "none"]]

\* handleVerification with the hub.mode test left out
handleVerificationTokenOnly(mode, token, challenge, verifyToken) ==
    IF token = verifyToken
    THEN [status |-> 200, body |-> challenge]
    ELSE [status |-> 403, body |-> "Forbidden"]

\* handleVerification: res.status(200).send(challenge) when hub.mode is
\* "subscribe" and hub.verify_token is the configured token, 403 otherwise
handleVerification(mode, token, challenge, verifyToken) ==
    IF mode = "subscribe" /\ token = verifyToken
    THEN [status |-> 200, body |-> challenge]
    ELSE [status |-> 403, body |-> "Forbidden"]

\* Route handler, case "GET"
IngressGet ==
    \E mode \in QueryModes : \E token \in QueryTokens :
    \E challenge \in QueryChallenges :
        LET loaded == loadConfig(config, env)
        IN  /\ config' = loaded.cached
            /\ getCall' = [mode |-> mode, token |-> token, challenge |-> challenge,
                           res |-> IF loaded.ret = "throw"
                                   THEN [status |-> 500, body |-> "unhandled"]
                                   ELSE handleVerification(mode, token, challenge,
                                            loaded.cached.WHATSAPP_VERIFY_TOKEN)]
            /\ UNCHANGED <<ingress, queue, pipeline, sigCall, receiverInstance, env,
                           verifyCalls, fetchCall, repository, calls>>

\* --------------------------------------------------------------------------
\* Idempotency ledger (src/services/idempotency.ts)
\* --------------------------------------------------------------------------
NewRow == [exists |-> TRUE, processed |-> FALSE, error |-> "null"]

\* INSERT ... ON CONFLICT DO NOTHING read as a success: no error, so true
claimMessageIdOnConflictDoNothing(table, wamid, storage) ==
    IF storage = "error" THEN [ret |-> "throw", table |-> table]
    ELSE IF table[wamid].exists THEN [ret |-> "true", table |-> table]
    ELSE [ret |-> "true", table |-> [table EXCEPT ![wamid] = NewRow]]

\* INSERT that overwrites an existing row (an upsert): every call claims
claimMessageIdUpsert(table, wamid, storage) ==
    IF storage = "error" THEN [ret |-> "throw", table |-> table]
    ELSE [ret |-> "true", table |-> [table EXCEPT ![wamid] = NewRow]]

\* every storage error read as "already exists"
claimMessageIdErrorIsDuplicate(table, wamid, storage) ==
    IF storage = "error" \/ table[wamid].exists THEN [ret |-> "false", table |-> table]
    ELSE [ret |-> "true", table |-> [table EXCEPT ![wamid] = NewRow]]

\* claimMessageId: INSERT into processed_messages (wamid is the primary key).
\* A unique violation (23505) returns false, another storage error throws,
\* an inserted row returns true.
claimMessageId(table, wamid, storage) ==
    LET error == IF storage = "error" THEN "other"
                 ELSE IF table[wamid].exists THEN "23505"
                 ELSE "null"
    IN  IF error = "23505" THEN [ret |-> "false", table |-> table]
        ELSE IF error # "null" THEN [ret |-> "throw", table |-> table]
        ELSE [ret |-> "true", table |-> [table EXCEPT ![wamid] = NewRow]]

\* a completion that removes the record instead of marking it
markMessageProcessedDeletes(table, wamid, storage) ==
    IF storage = "error" THEN table ELSE [table EXCEPT ![wamid] = NoRow]

\* markMessageProcessed: UPDATE ... SET processed = true WHERE wamid = ...;
\* a storage error is logged and the table is left as it is
markMessageProcessed(table, wamid, storage) ==
    IF storage = "error" \/ ~table[wamid].exists THEN table
    ELSE [table EXCEPT ![wamid].processed = TRUE]

\* a failure that gives the claim back: the row is deleted
markMessageErrorRollback(table, wamid, errorMessage, storage) ==
    IF storage = "error" \/ ~table[wamid].exists THEN table
    ELSE [table EXCEPT ![wamid] = NoRow]

\* a failure that is logged only: the row is not touched
markMessageErrorLogOnly(table, wamid, errorMessage, storage) == table

\* String.prototype.slice(start, end) for 0 <= start <= end
slice(s, start, end) == SubSeq(s, start + 1, IF end < Len(s) THEN end ELSE Len(s))

\* the longest error text markMessageError writes
MaxErrorLength == 500

NoErrorCall == [wamid |-> 0, errorMessage |-> "", done |-> FALSE]

\* the whole message written to the row
markMessageErrorWhole(table, wamid, errorMessage, storage) ==
    IF storage = "error" \/ ~table[wamid].exists THEN table
    ELSE [table EXCEPT ![wamid].error = errorMessage]

\* markMessageError: UPDATE ... SET error = <message, cut> WHERE wamid = ...
markMessageError(table, wamid, errorMessage, storage) ==
    IF storage = "error" \/ ~table[wamid].exists THEN table
    ELSE [table EXCEPT ![wamid].error = slice(errorMessage, 0, MaxErrorLength)]

\* --------------------------------------------------------------------------
\* Media download with retry (src/services/whatsapp-media.ts)
\* --------------------------------------------------------------------------
MAX_RETRIES == 3
BASE_DELAY_MS == 800

\* What one fetch(url, options) gives: a Response with a status, or a rejection
\* (timeout, DNS, connection reset)
HttpResponse(status) == [network |-> FALSE, status |-> status]
NetworkError == [network |-> TRUE, status |-> 0]
FetchOutcomes ==
    {HttpResponse(200), HttpResponse(404), HttpResponse(429), HttpResponse(503),
     NetworkError}

\* res.ok
IsOk(res) == ~res.network /\ res.status >= 200 /\ res.status <= 299

\* isRetryableStatus
isRetryableStatus(status) == status = 429 \/ status >= 500

NoError == [network |-> FALSE, status |-> 0]
NoFetch ==
    [pc |-> "none", attempt |-> 0, requests |-> <<>>, sleeps |-> <<>>,
     lastError |-> NoError, res |-> NoError]

\* for (...; attempt <= MAX_RETRIES; attempt++)
LoopContinues(attempt) == attempt <= MAX_RETRIES

\* a sleep after every failed attempt, the last one included
SleepsAfterEveryAttempt(attempt) == TRUE

\* if (attempt < MAX_RETRIES) await sleep(delay)
SleepsAfter(attempt) == attempt < MAX_RETRIES

\* a delay that grows by the base delay instead of doubling
BackoffDelayLinear(attempt) == BASE_DELAY_MS * (attempt + 1)

\* const delay = BASE_DELAY_MS * Math.pow(2, attempt)
BackoffDelay(attempt) == BASE_DELAY_MS * Pow(2, attempt)

\* The body of the try block for one outcome of fetch: "return" the response,
\* or go on to the rest of the loop body with lastError set. The throw for a
\* non-retryable status is inside the try block, so the catch clause takes it
\* like a rejection of fetch: the error becomes lastError and the loop goes on.
TryFetch(outcome) ==
    IF outcome.network THEN [to |-> "catch", lastError |-> outcome]
    ELSE IF IsOk(outcome) THEN [to |-> "return", lastError |-> NoError]
    ELSE IF ~isRetryableStatus(outcome.status)
         THEN [to |-> "catch", lastError |-> outcome]
    ELSE [to |-> "warn", lastError |-> outcome]

\* Leaving the loop body after attempt: the next iteration, or out of the loop
\* to "throw lastError"
NextIteration(call, attempt) ==
    IF LoopContinues(attempt)
    THEN [call EXCEPT !.pc = "fetch", !.attempt = attempt]
    ELSE [call EXCEPT !.pc = "thrown", !.attempt = attempt]

\* fetchWithRetry is called
FetchStart ==
    /\ fetchCall.pc = "none"
    /\ fetchCall' = NextIteration(NoFetch, 0)
    /\ UNCHANGED <<ingress, queue, pipeline, sigCall, receiverInstance, config, env,
                   verifyCalls, getCall, repository, calls>>

\* One iteration up to its await sleep: the request, the try block, the catch
\* clause, and, when no sleep follows, the loop's exit
FetchRequest ==
    \E outcome \in FetchOutcomes :
        /\ fetchCall.pc = "fetch"
        /\ LET t == TryFetch(outcome)
               requested == [fetchCall EXCEPT !.requests = Append(@, outcome)]
               failed == [requested EXCEPT !.lastError = t.lastError]
           IN  fetchCall' =
                  IF t.to = "return"
                  THEN [requested EXCEPT !.pc = "returned", !.res = outcome]
                  ELSE IF SleepsAfter(fetchCall.attempt)
                  THEN [failed EXCEPT !.pc = "sleep"]
                  ELSE NextIteration(failed, fetchCall.attempt + 1)
        /\ UNCHANGED <<ingress, queue, pipeline, sigCall, receiverInstance, config, env,
                       verifyCalls, getCall, repository, calls>>

\* await sleep(delay), then attempt++
FetchSleep ==
    /\ fetchCall.pc = "sleep"
    /\ fetchCall' =
          NextIteration([fetchCall EXCEPT !.sleeps =
                                            Append(@, BackoffDelay(fetchCall.attempt))],
                        fetchCall.attempt + 1)
    /\ UNCHANGED <<ingress, queue, pipeline, sigCall, receiverInstance, config, env,
                   verifyCalls, getCall, repository, calls>>

\* --------------------------------------------------------------------------
\* Broker and worker (api/process-message.ts)
\* --------------------------------------------------------------------------
BrokerSignatures == {"current", "next"}      \* signed with a QStash signing key
ForgedSignatures == {"missing", "invalid"}   \* no header, or one no key verifies
ErrorMsg == "errorMsg"                       \* err.message of the caught error

\* keys a signature may have been made with: the two configured ones and one
\* that is no longer (or not yet) configured
SignerKeys == {"current", "next", "retired"}

\* an Upstash-Signature header: the key that signed it and the body it signs
Signature(key, body) == [key |-> key, body |-> body]

\* let receiverInstance: Receiver | null = null
NoReceiver == [built |-> FALSE, currentSigningKey |-> "none", nextSigningKey |-> "none"]

\* getReceiver: the Receiver is built on the first call, from the keys of that
\* call, and handed out as it is on every later call
getReceiver(receiver, currentSigningKey, nextSigningKey) ==
    IF ~receiver.built
    THEN [built |-> TRUE, currentSigningKey |-> currentSigningKey,
          nextSigningKey |-> nextSigningKey]
    ELSE receiver

\* Receiver.verify({ signature, body }): tries the current key, then the next
\* key, and throws when the signature verifies under neither for this body
ReceiverVerify(receiver, signature, body) ==
    IF signature.body = body /\ signature.key = receiver.currentSigningKey THEN "ok"
    ELSE IF signature.body = body /\ signature.key = receiver.nextSigningKey THEN "ok"
    ELSE "throw"

\* verification that lets every present header through
verifyQStashSignatureAny(signature, body, currentSigningKey, nextSigningKey, receiver) ==
    [ret |-> TRUE,
     receiverInstance |-> getReceiver(receiver, currentSigningKey, nextSigningKey)]

\* verification with a Receiver that knows the current key only
verifyQStashSignatureCurrentOnly(signature, body, currentSigningKey, nextSigningKey, receiver) ==
    LET r == getReceiver(receiver, currentSigningKey, nextSigningKey)
    IN  [ret |-> signature.body = body /\ signature.key = r.currentSigningKey,
         receiverInstance |-> r]

\* verifyQStashSignature: Receiver.verify with the cached Receiver; an
\* exception of verify is caught and answered false
verifyQStashSignature(signature, body, currentSigningKey, nextSigningKey, receiver) ==
    LET r == getReceiver(receiver, currentSigningKey, nextSigningKey)
    IN  [ret |-> ReceiverVerify(r, signature, body) = "ok", receiverInstance |-> r]

\* a duplicate that is processed again: the claim's result is not looked at
AfterClaimIgnored(type, ret) ==
    IF ret = "throw" THEN "unhandled"
    ELSE IF type = "text" THEN "parseExpense"
    ELSE IF type \in {"audio", "image"} THEN "downloadWhatsAppMedia"
    ELSE "markMessageProcessed"

\* every claimed message handed to the extraction, whatever its kind
AfterClaimExtractsAnyKind(type, ret) ==
    IF ret = "throw" THEN "unhandled"
    ELSE IF ret = "false" THEN "duplicate"
    ELSE IF type \in {"audio", "image"} THEN "downloadWhatsAppMedia"
    ELSE "parseExpense"

\* Where the handler goes after the claim: out with the exception (the claim
\* is outside the try block), out with 'duplicate', or into processMessage up
\* to its first await
AfterClaim(type, ret) ==
    IF ret = "throw" THEN "unhandled"
    ELSE IF ret = "false" THEN "duplicate"
    ELSE IF type = "text" THEN "parseExpense"
    ELSE IF type \in {"audio", "image"} THEN "downloadWhatsAppMedia"
    ELSE "markMessageProcessed"

\* The broker learns the outcome of a delivery it made: 200 ends the unit's
\* retries
Ack(q, w, status) ==
    IF workers[w].caller = "qstash" /\ status = 200
    THEN [q EXCEPT ![workers[w].wamid] = "acked"]
    ELSE q

Step(w, pc) == [workers EXCEPT ![w].pc = pc]

\* an unrecognized message completed without a word to the sender
AfterParseSilent(parsed) ==
    IF parsed = "null" THEN "markMessageProcessed" ELSE "upsertUser"

\* processMessage after parseExpense: if (!parsed) the help message is sent
\* and processMessage returns; otherwise saveAndConfirm
AfterParse(parsed) == IF parsed = "null" THEN "sendHelp" ELSE "upsertUser"

\* saveAndConfirm with the confirmation sent before the transaction is saved
saveAndConfirmReplyFirst(call) ==
    IF call = "upsertUser" THEN "sendConfirm"
    ELSE IF call = "sendConfirm" THEN "resolve"
    ELSE IF call = "resolve" THEN "insertTransaction"
    ELSE "markMessageProcessed"

\* saveAndConfirm that returns after the insert, without the confirmation
saveAndConfirmNoReply(call) ==
    IF call = "upsertUser" THEN "resolve"
    ELSE IF call = "resolve" THEN "insertTransaction"
    ELSE "markMessageProcessed"

\* saveAndConfirm and saveExpenseAsTransaction: what follows each call when
\* it returns; after the confirmation processMessage returns to the handler
saveAndConfirm(call) ==
    IF call = "upsertUser" THEN "resolve"
    ELSE IF call = "resolve" THEN "insertTransaction"
    ELSE IF call = "insertTransaction" THEN "sendConfirm"
    ELSE "markMessageProcessed"

\* a failed ledger update that is thrown into the handler's catch
AfterMarkProcessedEscalates(storage) ==
    IF storage = "error" THEN "markMessageError" ELSE "respond"

\* a handler that records an error after it has marked the message processed
AfterMarkProcessedThenError(storage) == "markMessageError"

\* handler after markMessageProcessed: the call logs a storage error and
\* returns, so the handler goes on to res.status(200)
AfterMarkProcessed(storage) == "respond"

\* The invocation answers and ends
Finish(w) == [workers EXCEPT ![w] = IdleWorker]
Answer(w, status, body) ==
    [wamid |-> workers[w].wamid, caller |-> workers[w].caller,
     signature |-> "verified", type |-> workers[w].type,
     claimed |-> workers[w].claimed, parsed |-> workers[w].parsed,
     ledger |-> "none", status |-> status, body |-> body]

\* the ingress handler's publish of one unit, seen from the pipeline
Publish ==
    \E wamid \in 1..MaxUnits :
        /\ queue[wamid] = "none"
        /\ queue' = publishToQStash(queue, wamid)
        /\ response' = NoResponse
        /\ UNCHANGED <<ingress, deliveries, workers, processed_messages, transactions,
                       sent, claims, abandoned, sigCall, receiverInstance, side>>

\* handler, from the request to the claim: 401 without or with a bad signature
\* (the payload is not parsed yet). Invocations are interchangeable: a request
\* is served by the first free one.
handler(w, wamid, signature, caller) ==
    LET refused(body) == [NoResponse EXCEPT !.signature = signature, !.caller = caller,
                                            !.status = 401, !.body = body]
        loaded == loadConfig(config, env)
        isValid == verifyQStashSignature(Signature(signature, wamid), wamid,
                                         loaded.cached.QSTASH_CURRENT_SIGNING_KEY,
                                         loaded.cached.QSTASH_NEXT_SIGNING_KEY,
                                         receiverInstance)
    IN  /\ workers[w].pc = "idle"
        /\ \A v \in WorkerIds : v < w => workers[v].pc # "idle"
        /\ config' = loaded.cached
        /\ IF loaded.ret = "throw"
           THEN /\ response' = [NoResponse EXCEPT !.signature = signature,
                                                  !.caller = caller, !.status = 500,
                                                  !.body = "unhandled"]
                /\ UNCHANGED <<workers, receiverInstance>>
           ELSE IF signature = "missing"
           THEN /\ response' = refused("Missing QStash signature")
                /\ UNCHANGED <<workers, receiverInstance>>
           ELSE IF ~isValid.ret
           THEN /\ response' = refused("Invalid signature")
                /\ receiverInstance' = isValid.receiverInstance
                /\ UNCHANGED workers
           ELSE /\ response' = NoResponse
                /\ receiverInstance' = isValid.receiverInstance
                /\ workers' = [workers EXCEPT ![w] =
                      [IdleWorker EXCEPT !.pc = "claimMessageId", !.wamid = wamid,
                                         !.caller = caller]]

\* QStash delivers a pending unit (a first delivery or a retry; a retry may
\* overlap an invocation that has not answered yet)
BrokerDeliver ==
    \E w \in WorkerIds : \E wamid \in MsgIds : \E signature \in BrokerSignatures :
        /\ queue[wamid] = "pending"
        /\ deliveries < MaxDeliveries
        /\ deliveries' = deliveries + 1
        /\ handler(w, wamid, signature, "qstash")
        /\ UNCHANGED <<ingress, queue, processed_messages, transactions, sent, claims,
                       abandoned, sigCall, others>>

\* Someone else posts to the worker endpoint
ForgedDeliver ==
    \E w \in WorkerIds : \E wamid \in MsgIds : \E signature \in ForgedSignatures :
        /\ handler(w, wamid, signature, "other")
        /\ UNCHANGED <<ingress, queue, deliveries, processed_messages, transactions, sent, claims,
                       abandoned, sigCall, others>>

\* Step 3 of the handler: the claim, and the dispatch on msg.type
WClaim ==
    \E w \in WorkerIds : \E storage \in {"ok", "error"} : \E type \in PayloadKinds :
        /\ workers[w].pc = "claimMessageId"
        /\ LET wamid == workers[w].wamid
               c == claimMessageId(processed_messages, wamid, storage)
               next == AfterClaim(type, c.ret)
               out(status, body) == [Answer(w, status, body) EXCEPT !.claimed = c.ret]
           IN  /\ processed_messages' = c.table
               /\ claims' = IF c.ret = "true" THEN [claims EXCEPT ![wamid] = @ + 1]
                            ELSE claims
               /\ IF next = "unhandled"
                  THEN /\ workers' = Finish(w)
                       /\ response' = out(500, "unhandled")
                       /\ queue' = queue
                  ELSE IF next = "duplicate"
                  THEN /\ workers' = Finish(w)
                       /\ response' = out(200, "duplicate")
                       /\ queue' = Ack(queue, w, 200)
                  ELSE /\ workers' = [workers EXCEPT ![w].pc = next, ![w].type = type,
                                                     ![w].claimed = c.ret]
                       /\ response' = NoResponse
                       /\ queue' = queue
        /\ UNCHANGED <<ingress, deliveries, transactions, sent, abandoned, sigCall, receiverInstance, side>>

\* downloadWhatsAppMedia (audio, image)
WDownload ==
    \E w \in WorkerIds : \E ok \in BOOLEAN :
        /\ workers[w].pc = "downloadWhatsAppMedia"
        /\ workers' = Step(w, IF ok THEN "parseExpense" ELSE "markMessageError")
        /\ response' = NoResponse
        /\ UNCHANGED <<ingress, queue, deliveries, processed_messages, transactions, sent, claims,
                       abandoned, sigCall, receiverInstance, side>>

\* parseExpense: an expense or null (it catches its own errors)
WParse ==
    \E w \in WorkerIds : \E parsed \in {"expense", "null"} :
        /\ workers[w].pc = "parseExpense"
        /\ workers' = [Step(w, AfterParse(parsed)) EXCEPT ![w].parsed = parsed]
        /\ response' = NoResponse
        /\ UNCHANGED <<ingress, queue, deliveries, processed_messages, transactions, sent, claims,
                       abandoned, sigCall, receiverInstance, side>>

\* sendWhatsAppMessage with the help text
WSendHelp ==
    \E w \in WorkerIds : \E ok \in BOOLEAN :
        /\ workers[w].pc = "sendHelp"
        /\ workers' = Step(w, IF ok THEN "markMessageProcessed" ELSE "markMessageError")
        /\ sent' = IF ok THEN [sent EXCEPT ![workers[w].wamid] = Append(@, "help")]
                   ELSE sent
        /\ response' = NoResponse
        /\ UNCHANGED <<ingress, queue, deliveries, processed_messages, transactions, claims,
                       abandoned, sigCall, receiverInstance, side>>

\* saveAndConfirm: upsertUser
WUpsertUser ==
    \E w \in WorkerIds : \E ok \in BOOLEAN :
        /\ workers[w].pc = "upsertUser"
        /\ workers' = Step(w, IF ok THEN saveAndConfirm("upsertUser") ELSE "markMessageError")
        /\ response' = NoResponse
        /\ UNCHANGED <<ingress, queue, deliveries, processed_messages, transactions, sent, claims,
                       abandoned, sigCall, receiverInstance, side>>

\* saveExpenseAsTransaction: Promise.all of ensureDefaultAccount and
\* resolveCategoryId
WResolve ==
    \E w \in WorkerIds : \E ok \in BOOLEAN :
        /\ workers[w].pc = "resolve"
        /\ workers' = Step(w, IF ok THEN saveAndConfirm("resolve") ELSE "markMessageError")
        /\ response' = NoResponse
        /\ UNCHANGED <<ingress, queue, deliveries, processed_messages, transactions, sent, claims,
                       abandoned, sigCall, receiverInstance, side>>

\* saveExpenseAsTransaction: insertTransaction
WInsert ==
    \E w \in WorkerIds : \E ok \in BOOLEAN :
        /\ workers[w].pc = "insertTransaction"
        /\ workers' = Step(w, IF ok THEN saveAndConfirm("insertTransaction")
                                       ELSE "markMessageError")
        /\ transactions' = IF ok THEN [transactions EXCEPT ![workers[w].wamid] = @ + 1]
                           ELSE transactions
        /\ response' = NoResponse
        /\ UNCHANGED <<ingress, queue, deliveries, processed_messages, sent, claims, abandoned,
                       sigCall, receiverInstance, side>>

\* saveAndConfirm: sendWhatsAppMessage with the confirmation
WSendConfirm ==
    \E w \in WorkerIds : \E ok \in BOOLEAN :
        /\ workers[w].pc = "sendConfirm"
        /\ workers' = Step(w, IF ok THEN saveAndConfirm("sendConfirm") ELSE "markMessageError")
        /\ sent' = IF ok THEN [sent EXCEPT ![workers[w].wamid] = Append(@, "confirm")]
                   ELSE sent
        /\ response' = NoResponse
        /\ UNCHANGED <<ingress, queue, deliveries, processed_messages, transactions, claims,
                       abandoned, sigCall, receiverInstance, side>>

\* Step 4, success: markMessageProcessed, then 200 'processed'
WMarkProcessed ==
    \E w \in WorkerIds : \E storage \in {"ok", "error"} :
        /\ workers[w].pc = "markMessageProcessed"
        /\ processed_messages' =
              markMessageProcessed(processed_messages, workers[w].wamid, storage)
        /\ IF AfterMarkProcessed(storage) = "respond"
           THEN /\ workers' = Finish(w)
                /\ response' = [Answer(w, 200, "processed") EXCEPT !.ledger = storage]
                /\ queue' = Ack(queue, w, 200)
           ELSE /\ workers' = Step(w, AfterMarkProcessed(storage))
                /\ response' = NoResponse
                /\ queue' = queue
        /\ UNCHANGED <<ingress, deliveries, transactions, sent, claims, abandoned, sigCall, receiverInstance, side>>

\* Step 4, catch: markMessageError, then 500
WMarkError ==
    \E w \in WorkerIds : \E storage \in {"ok", "error"} :
        /\ workers[w].pc = "markMessageError"
        /\ processed_messages' =
              markMessageError(processed_messages, workers[w].wamid, ErrorMsg, storage)
        /\ workers' = Finish(w)
        /\ response' = [Answer(w, 500, "Processing failed") EXCEPT !.ledger = storage]
        /\ UNCHANGED <<ingress, queue, deliveries, transactions, sent, claims, abandoned, sigCall, receiverInstance, side>>

\* The invocation dies (timeout, platform kill) and answers nothing
WCrash ==
    \E w \in WorkerIds :
        /\ workers[w].pc # "idle"
        /\ workers' = Finish(w)
        /\ abandoned' = IF workers[w].claimed = "true"
                        THEN [abandoned EXCEPT ![workers[w].wamid] = TRUE]
                        ELSE abandoned
        /\ response' = NoResponse
        /\ UNCHANGED <<ingress, queue, deliveries, processed_messages, transactions, sent, claims,
                       sigCall, receiverInstance, side>>

\* --------------------------------------------------------------------------
\* The request body as text: what each handler hands to its verifier
\* (api/webhook.ts getRawBody; api/process-message.ts, step 1)
\* --------------------------------------------------------------------------
\* The JSON texts of one payload { "message": id }: insignificant white space
\* may stand in each of the four gaps between its tokens
Gaps == 1..4
Pad(gap, spaced) == IF gap \in spaced THEN <<" ">> ELSE <<>>
RawText(id, spaced) ==
    <<"{">> \o Pad(1, spaced) \o <<"message">> \o Pad(2, spaced) \o <<":">>
        \o Pad(3, spaced) \o <<ToString(id)>> \o Pad(4, spaced) \o <<"}">>
RawTexts == {RawText(id, spaced) : id \in MsgIds, spaced \in SUBSET Gaps}

\* JSON.parse of such a text, and JSON.stringify of the value: the text
\* without white space
JSONparseText(text) ==
    LET tokens == SelectSeq(text, LAMBDA c : c # " ")
    IN  [message |-> tokens[4]]
JSONstringify(value) == <<"{", "message", ":", value.message, "}">>

\* the stream of a request: the text in one chunk or cut in two
Chunkings(text) ==
    {<<text>>} \cup {<<SubSeq(text, 1, k), SubSeq(text, k + 1, Len(text))>> :
                        k \in 1..(Len(text) - 1)}

\* getRawBody: Buffer.concat(chunks).toString("utf-8")
RECURSIVE getRawBody(_)
getRawBody(chunks) ==
    IF chunks = <<>> THEN <<>> ELSE Head(chunks) \o getRawBody(Tail(chunks))

\* req.body of the platform's body parser (left on for the worker): the
\* decoded value for application/json, the text for text/plain
ContentTypes == {"application/json", "text/plain"}
reqBody(text, contentType) ==
    IF contentType = "application/json"
    THEN [typeof |-> "object", value |-> JSONparseText(text)]
    ELSE [typeof |-> "string", value |-> text]

\* const rawBody = typeof req.body === "string" ? req.body : JSON.stringify(req.body)
workerRawBody(body) ==
    IF body.typeof = "string" THEN body.value ELSE JSONstringify(body.value)

NoRaw ==
    [handler |-> "none", chunks |-> <<>>, contentType |-> "none",
     signature |-> Signature("none", <<>>), rawBody |-> <<>>, result |-> "none"]

\* the thin webhook handler reads the stream itself (bodyParser: false)
RawIngress ==
    /\ rawCall.handler = "webhook" /\ rawCall.result = "none"
    /\ rawCall' = [rawCall EXCEPT !.rawBody = getRawBody(rawCall.chunks),
                                  !.result = "read"]
    /\ UNCHANGED <<ingress, queue, pipeline, sigCall, receiverInstance, config, env,
                   verifyCalls, fetchCall, getCall, repository, errorCall,
                   parseCall,
                   syncCall>>

\* the worker handler, step 1: the string verified is made from req.body
RawWorker ==
    /\ rawCall.handler = "process-message" /\ rawCall.result = "none"
    /\ LET loaded == loadConfig(config, env).cached
           rawBody == workerRawBody(reqBody(getRawBody(rawCall.chunks),
                                            rawCall.contentType))
           isValid == verifyQStashSignature(rawCall.signature, rawBody,
                                            loaded.QSTASH_CURRENT_SIGNING_KEY,
                                            loaded.QSTASH_NEXT_SIGNING_KEY,
                                            receiverInstance)
       IN  /\ config' = loaded
           /\ receiverInstance' = isValid.receiverInstance
           /\ rawCall' = [rawCall EXCEPT !.rawBody = rawBody,
                             !.result = IF isValid.ret THEN "verified" ELSE "401"]
    /\ UNCHANGED <<ingress, queue, pipeline, sigCall, env, verifyCalls, fetchCall,
                   getCall, repository, errorCall,
                   parseCall,
                   syncCall>>

\* --------------------------------------------------------------------------
\* Expense parser (services/expense-parser.ts)
\* --------------------------------------------------------------------------
\* Numbers: NaN, or a decimal kept as an integer count of 1/Scale
Scale == Pow(10, MaxAmountChars)
NaN == [nan |-> TRUE, scaled |-> 0]
Num(scaled) == [nan |-> FALSE, scaled |-> scaled]

\* The characters an amount is written with ([\d.,]+) and their strings
AmountChars == {"0", "5", ".", ","}
IsDigit(c) == c \in {"0", "5"}
DigitVal(c) == IF c = "5" THEN 5 ELSE 0
RECURSIVE TextsOfLength(_)
TextsOfLength(n) ==
    IF n = 0 THEN {<<>>}
    ELSE {Append(s, c) : s \in TextsOfLength(n - 1), c \in AmountChars}
AmountTexts == UNION {TextsOfLength(n) : n \in 1..MaxAmountChars}

RECURSIVE LeadingDigits(_)
LeadingDigits(s) ==
    IF s = <<>> \/ ~IsDigit(Head(s)) THEN 0 ELSE 1 + LeadingDigits(Tail(s))
RECURSIVE DigitsValue(_)
DigitsValue(s) ==
    IF s = <<>> THEN 0
    ELSE 10 * DigitsValue(SubSeq(s, 1, Len(s) - 1)) + DigitVal(s[Len(s)])

\* The longest prefix of s that is a decimal literal (digits, a point,
\* digits, with a digit on one side at least): its length and its value
DecimalPrefix(s) ==
    LET a == LeadingDigits(s)
        point == a < Len(s) /\ s[a + 1] = "."
        b == IF point THEN LeadingDigits(SubSeq(s, a + 2, Len(s))) ELSE 0
        int == DigitsValue(SubSeq(s, 1, a))
        frac == DigitsValue(SubSeq(s, a + 2, a + 1 + b))
    IN  IF a = 0 /\ b = 0 THEN [length |-> 0, number |-> NaN]
        ELSE [length |-> a + (IF point THEN 1 + b ELSE 0),
              number |-> Num(int * Scale + (frac * Scale) \div Pow(10, b))]

\* parseFloat(s): the value of the longest decimal prefix, NaN without one
parseFloat(s) == DecimalPrefix(s).number

\* Number(s), the conversion a comparison applies to a string: 0 for the
\* empty string, NaN unless the whole string is a decimal literal
StringToNumber(s) ==
    IF s = <<>> THEN Num(0)
    ELSE IF DecimalPrefix(s).length = Len(s) THEN DecimalPrefix(s).number
    ELSE NaN

\* raw.replace(/\./g, "").replace(",", ".")
ReplaceFirstComma(s) ==
    LET commas == {i \in 1..Len(s) : s[i] = ","}
    IN  IF commas = {} THEN s
        ELSE [s EXCEPT ![CHOOSE i \in commas : \A j \in commas : i <= j] = "."]
Cleaned(raw) == ReplaceFirstComma(SelectSeq(raw, LAMBDA c : c # "."))

\* the number parseArgNumber reads, before NaN is turned into 0
parseArgNumberNaN(raw) == parseFloat(Cleaned(raw))

\* parseArgNumber: "5.000,50" -> 5000.50, and 0 for what is not a number
parseArgNumber(raw) ==
    LET num == parseFloat(Cleaned(raw))
    IN  IF num.nan THEN Num(0) ELSE num

\* JavaScript values an amount may be
Undef == [typeof |-> "undefined", number |-> NaN, text |-> <<>>]
NumberValue(number) == [typeof |-> "number", number |-> number, text |-> <<>>]
StringValue(text) == [typeof |-> "string", number |-> NaN, text |-> text]
Falsy(v) ==
    \/ v.typeof = "undefined"
    \/ v.typeof = "number" /\ (v.number.nan \/ v.number.scaled = 0)
    \/ v.typeof = "string" /\ v.text = <<>>
ToNumber(v) ==
    IF v.typeof = "number" THEN v.number
    ELSE IF v.typeof = "string" THEN StringToNumber(v.text)
    ELSE NaN
\* v <= 0 and v > 0: false when the operand converts to NaN
LessOrEqualZero(v) == ~ToNumber(v).nan /\ ToNumber(v).scaled <= 0
GreaterThanZero(v) == ~ToNumber(v).nan /\ ToNumber(v).scaled > 0

\* ParsedExpense | null (the amount only)
Null == [null |-> TRUE, amount |-> Undef]
ParsedExpense(amount) == [null |-> FALSE, amount |-> amount]

\* A message as the patterns see it: words in a row, each a verb of spending,
\* a preposition (en, de, por), another word of letters, an amount, or an
\* amount with a minus sign before it
TokenKinds == {"verb", "prep", "word", "amount", "negative"}
PatternParts == 4
Shapes == UNION {[1..n -> TokenKinds] : n \in 0..PatternParts}
MessageOf(shape, amountRaw) ==
    [i \in 1..Len(shape) |->
        [kind |-> shape[i],
         text |-> IF shape[i] \in {"amount", "negative"} THEN amountRaw ELSE <<>>]]
Messages == {MessageOf(shape, amountRaw) : shape \in Shapes, amountRaw \in AmountTexts}
Letters(token) == token.kind \notin {"amount", "negative"}
First(places) == CHOOSE i \in places : \A j \in places : i <= j

\* EXPENSE_PATTERNS[i] on the trimmed message: whether it matches and the
\* text of the amount group of the leftmost match. Pattern 2 is not anchored
\* and asks nothing of what stands before the digits, so it also matches
\* from the digits of a negative amount on
NoMatch == [matched |-> FALSE, amountRaw |-> <<>>]
Matched(token) == [matched |-> TRUE, amountRaw |-> token.text]
Match(i, m) ==
    LET n == Len(m)
        kind(j) == m[j].kind
        verbAmount == {j \in 1..(n - 3) : /\ kind(j) = "verb" /\ kind(j + 1) = "amount"
                                          /\ kind(j + 2) = "prep"}
        after(j) == {k \in (j + 3)..n : kind(k) = "amount"}
        verbPrep == {j \in 1..(n - 3) : /\ kind(j) = "verb" /\ kind(j + 1) = "prep"
                                        /\ after(j) # {}}
        amountPrep == {j \in 1..(n - 2) : /\ kind(j) \in {"amount", "negative"}
                                          /\ kind(j + 1) = "prep"}
    IN  CASE i = 0 -> IF verbAmount = {} THEN NoMatch ELSE Matched(m[First(verbAmount) + 1])
          [] i = 1 -> IF verbPrep = {} THEN NoMatch
                      ELSE Matched(m[First(after(First(verbPrep)))])
          [] i = 2 -> IF amountPrep = {} THEN NoMatch ELSE Matched(m[First(amountPrep)])
          [] i = 3 -> IF n >= 2 /\ kind(n) = "amount" /\ \A j \in 1..(n - 1) : Letters(m[j])
                      THEN Matched(m[n]) ELSE NoMatch
          [] OTHER -> IF n >= 2 /\ kind(1) = "amount" /\ \A j \in 2..n : Letters(m[j])
                      THEN Matched(m[1]) ELSE NoMatch

\* parseExpenseRegex: the patterns in order; a match whose amount is not
\* above 0 is passed over
RECURSIVE TryPatterns(_, _)
TryPatterns(m, i) ==
    IF i > 4 THEN Null
    ELSE IF ~Match(i, m).matched THEN TryPatterns(m, i + 1)
    ELSE LET amount == parseArgNumber(Match(i, m).amountRaw)
         IN  IF amount.scaled <= 0 THEN TryPatterns(m, i + 1)
             ELSE ParsedExpense(NumberValue(amount))
parseExpenseRegex(message) == TryPatterns(message, 0)

\* What the language model answers: nothing JSON.parse accepts, or an object
\* whose amount is absent, a number or a string
ReplyTexts == {<<>>} \cup {<<c>> : c \in AmountChars}
ReplyAmounts ==
    {Undef} \cup {NumberValue(Num(n * Scale)) : n \in {-1, 0, 1}}
            \cup {StringValue(text) : text \in ReplyTexts}
Replies == [threw : {TRUE}, amount : {Undef}] \cup [threw : {FALSE}, amount : ReplyAmounts]

\* parseExpenseLLM: null when the call or JSON.parse throws and when
\* !parsed.amount || parsed.amount <= 0; otherwise the reply's amount as it is
parseExpenseLLM(reply) ==
    IF reply.threw THEN Null
    ELSE IF Falsy(reply.amount) \/ LessOrEqualZero(reply.amount) THEN Null
    ELSE ParsedExpense(reply.amount)

\* parseExpense: media goes to the language model (null without a key); text
\* goes to the patterns first and to the model when they give nothing
parseExpense(message, geminiKey, media, reply) ==
    IF media THEN (IF ~geminiKey THEN Null ELSE parseExpenseLLM(reply))
    ELSE IF ~parseExpenseRegex(message).null THEN parseExpenseRegex(message)
    ELSE IF geminiKey THEN parseExpenseLLM(reply)
    ELSE Null

NoParse ==
    [fn |-> "none", message |-> <<>>, geminiKey |-> FALSE, media |-> FALSE,
     done |-> FALSE, result |-> Null]

CallParseExpenseRegex ==
    /\ parseCall.fn = "parseExpenseRegex" /\ ~parseCall.done
    /\ parseCall' = [parseCall EXCEPT !.done = TRUE,
                                      !.result = parseExpenseRegex(parseCall.message)]
    /\ UNCHANGED <<ingress, queue, pipeline, sigCall, receiverInstance, config, env,
                   verifyCalls, fetchCall, getCall, repository, rawCall, errorCall,
                   syncCall>>

CallParseExpenseLLM ==
    /\ parseCall.fn = "parseExpenseLLM" /\ ~parseCall.done
    /\ \E reply \in Replies :
          parseCall' = [parseCall EXCEPT !.done = TRUE, !.result = parseExpenseLLM(reply)]
    /\ UNCHANGED <<ingress, queue, pipeline, sigCall, receiverInstance, config, env,
                   verifyCalls, fetchCall, getCall, repository, rawCall, errorCall,
                   syncCall>>

CallParseExpense ==
    /\ parseCall.fn = "parseExpense" /\ ~parseCall.done
    /\ \E reply \in Replies :
          parseCall' = [parseCall EXCEPT !.done = TRUE,
              !.result = parseExpense(parseCall.message, parseCall.geminiKey,
                                      parseCall.media, reply)]
    /\ UNCHANGED <<ingress, queue, pipeline, sigCall, receiverInstance, config, env,
                   verifyCalls, fetchCall, getCall, repository, rawCall, errorCall,
                   syncCall>>

\* --------------------------------------------------------------------------
\* The synchronous webhook handler (api/webhook.ts)
\* --------------------------------------------------------------------------
\* extractMessages: the messages of every change of every entry
RECURSIVE MessagesOfChanges(_)
MessagesOfChanges(changes) ==
    IF changes = <<>> THEN <<>>
    ELSE Head(changes).messages \o MessagesOfChanges(Tail(changes))
RECURSIVE MessagesOfEntries(_)
MessagesOfEntries(entry) ==
    IF entry = <<>> THEN <<>>
    ELSE MessagesOfChanges(Head(entry)) \o MessagesOfEntries(Tail(entry))
extractMessages(body) == MessagesOfEntries(body.entry)

NoSync ==
    [pc |-> "idle", rawBody |-> 0, messages |-> <<>>, outcomes |-> <<>>,
     res |-> NoRes, log |-> <<>>]

\* the requests served before, each with its body and the status it was
\* answered with (0: the handler returned without a response)
Served(call) ==
    IF call.pc = "returned"
    THEN Append(call.log, [rawBody |-> call.rawBody, status |-> call.res.status])
    ELSE call.log

\* handleIncomingMessage up to the loop: the two guards return without
\* touching res
handleIncomingMessage(rawBody) ==
    /\ syncCall.pc \in {"idle", "returned"}
    /\ Len(Served(syncCall)) < MaxCalls
    /\ LET body == JSONparse(rawBody)
           messages == extractMessages(body)
           req == [NoSync EXCEPT !.rawBody = rawBody, !.log = Served(syncCall)]
       IN  /\ config' = loadConfig(config, env).cached
           /\ syncCall' =
                IF ~ExpectedObject(body) \/ Len(messages) = 0
                THEN [req EXCEPT !.pc = "returned"]
                ELSE [req EXCEPT !.pc = "processing", !.messages = messages]
    /\ UNCHANGED <<ingress, queue, pipeline, sigCall, receiverInstance, env, verifyCalls,
                   fetchCall, getCall, repository, rawCall, errorCall, parseCall>>

SyncPost == \E rawBody \in RawBodies : handleIncomingMessage(rawBody)

\* for (const msg of messages) { await processMessage(msg, config) } inside
\* the try: after the last message 200 'received'; a throw leaves the loop
\* for the catch, which logs and returns
AfterProcessMessage(outcomes, messages) ==
    IF outcomes[Len(outcomes)] = "threw" THEN [pc |-> "returned", res |-> NoRes]
    ELSE IF Len(outcomes) < Len(messages) THEN [pc |-> "processing", res |-> NoRes]
    ELSE [pc |-> "returned", res |-> Res(200, "received")]

\* processMessage of the next message returns or throws
SyncProcess ==
    /\ syncCall.pc = "processing"
    /\ \E outcome \in {"returned", "threw"} :
          LET outcomes == Append(syncCall.outcomes, outcome)
              next == AfterProcessMessage(outcomes, syncCall.messages)
          IN  syncCall' = [syncCall EXCEPT !.outcomes = outcomes, !.pc = next.pc,
                                           !.res = next.res]
    /\ UNCHANGED <<ingress, queue, pipeline, sigCall, receiverInstance, config, env,
                   verifyCalls, fetchCall, getCall, repository, rawCall, errorCall,
                   parseCall>>

\* --------------------------------------------------------------------------
\* Transaction repository (services/transaction-repository.ts) and its tables
\* --------------------------------------------------------------------------
UserIds == {"new_user", "migrated_user"}
CategoryNames == {"comida", "mascotas"}

\* ids: uuid_generate_v4() gives every inserted row its own id
NullId == <<>>
RowId(s) == <<"row", s>>
SeedId(name) == <<"seed", name>>

\* migration 004, step 4a: a user who had expenses has a default account
\* "General"; a new user has no account
MigratedAccounts ==
    {[id |-> SeedId("General"), user_id |-> "migrated_user", name |-> "General",
      is_default |-> TRUE]}

\* migration 001: the seeded categories (one of them here)
SeededCategories == {[id |-> SeedId("comida"), name |-> "comida"]}

\* one of the two calls under Promise.all: where it is, the id it returned,
\* whether it re-read after a conflict
NoBranch == [pc |-> "idle", id |-> NullId, retried |-> FALSE]
NoSave ==
    [pc |-> "idle", userId |-> "none", category |-> "none", accountId |-> NoBranch,
     categoryId |-> NoBranch]

\* .select("id")....single(): the id of the row when exactly one row matches
\* and the call works; data is null otherwise
Single(rows, storage) ==
    IF storage = "ok" /\ Cardinality(rows) = 1 THEN (CHOOSE r \in rows : TRUE).id
    ELSE NullId

\* accounts: SELECT id WHERE user_id = ... AND is_default = true
selectDefaultAccount(table, userId, storage) ==
    Single({r \in table : r.user_id = userId /\ r.is_default}, storage)

\* accounts: INSERT (user_id, 'General', is_default = true) under
\* CONSTRAINT uq_user_account_name UNIQUE (user_id, name)
insertAccount(table, userId, id, storage) ==
    IF storage = "error" THEN [code |-> "other", table |-> table]
    ELSE IF \E r \in table : r.user_id = userId /\ r.name = "General"
    THEN [code |-> "23505", table |-> table]
    ELSE [code |-> "null",
          table |-> table \cup {[id |-> id, user_id |-> userId, name |-> "General",
                                 is_default |-> TRUE]}]

\* categories: SELECT id WHERE name = ...
selectCategory(table, categoryName, storage) ==
    Single({r \in table : r.name = categoryName}, storage)

\* categories: INSERT (name) under name TEXT UNIQUE
insertCategory(table, categoryName, id, storage) ==
    IF storage = "error" THEN [code |-> "other", table |-> table]
    ELSE IF \E r \in table : r.name = categoryName
    THEN [code |-> "23505", table |-> table]
    ELSE [code |-> "null", table |-> table \cup {[id |-> id, name |-> categoryName]}]

\* the insert goes ahead as soon as the account is there
ReadyToInsertAccountOnly(save) == save.accountId.pc = "done"

\* const [accountId, categoryId] = await Promise.all([...]): both calls
\* have returned
ReadyToInsert(save) == save.accountId.pc = "done" /\ save.categoryId.pc = "done"

\* await Promise.all([...]) in saveExpenseAsTransaction: it rejects as soon as
\* one call has thrown (the other call runs on), and resolves when both
\* have returned
PromiseAll(save) ==
    IF save.pc # "Promise.all" THEN save
    ELSE IF save.accountId.pc = "failed" \/ save.categoryId.pc = "failed"
    THEN [save EXCEPT !.pc = "rejected"]
    ELSE IF ReadyToInsert(save) THEN [save EXCEPT !.pc = "insertTransaction"]
    ELSE save

Returned(branch, id) == [branch EXCEPT !.pc = "done", !.id = id]

\* what a storage call may give: the result, or (a bounded number of times)
\* an error
StorageOutcomes == IF storageErrors < MaxStorageErrors THEN {"ok", "error"} ELSE {"ok"}
Count(storage) == IF storage = "error" THEN storageErrors + 1 ELSE storageErrors

\* saveExpenseAsTransaction is called: both calls under Promise.all start
SaveStart ==
    \E s \in SaverIds : \E userId \in UserIds : \E category \in CategoryNames :
        /\ saves[s].pc = "idle"
        /\ \A t \in SaverIds : t < s => saves[t].pc # "idle"
        /\ saves' = [saves EXCEPT ![s] =
              [pc |-> "Promise.all", userId |-> userId, category |-> category,
               accountId |-> [NoBranch EXCEPT !.pc = "select"],
               categoryId |-> [NoBranch EXCEPT !.pc = "select"]]]
        /\ UNCHANGED <<ingress, queue, pipeline, sigCall, receiverInstance, config, env,
                       verifyCalls, fetchCall, getCall, accounts, categories,
                       transactionRows, storageErrors, calls>>

\* ensureDefaultAccount: the first read
EnsureSelect ==
    \E s \in SaverIds : \E storage \in StorageOutcomes :
        /\ storageErrors' = Count(storage)
        /\ saves[s].accountId.pc = "select"
        /\ LET existing == selectDefaultAccount(accounts, saves[s].userId, storage)
               branch == saves[s].accountId
           IN  saves' = [saves EXCEPT ![s] = PromiseAll([@ EXCEPT !.accountId =
                   IF existing # NullId THEN Returned(branch, existing)
                   ELSE [branch EXCEPT !.pc = "insert"]])]
        /\ UNCHANGED <<ingress, queue, pipeline, sigCall, receiverInstance, config, env,
                       verifyCalls, fetchCall, getCall, accounts, categories,
                       transactionRows, calls>>

\* no re-read: every insert error is thrown
AfterAccountInsertThrows(code) == IF code = "null" THEN "done" ELSE "failed"

\* ensureDefaultAccount after the insert: created, or on error code 23505
\* the re-read, or the throw
AfterAccountInsert(code) ==
    IF code = "null" THEN "done" ELSE IF code = "23505" THEN "retry" ELSE "failed"

\* ensureDefaultAccount: the insert of the account "General"
EnsureInsert ==
    \E s \in SaverIds : \E storage \in StorageOutcomes :
        /\ storageErrors' = Count(storage)
        /\ saves[s].accountId.pc = "insert"
        /\ LET created == insertAccount(accounts, saves[s].userId, RowId(s), storage)
               branch == saves[s].accountId
               next == AfterAccountInsert(created.code)
           IN  /\ accounts' = created.table
               /\ saves' = [saves EXCEPT ![s] = PromiseAll([@ EXCEPT !.accountId =
                      IF next = "done" THEN Returned(branch, RowId(s))
                      ELSE [branch EXCEPT !.pc = next]])]
        /\ UNCHANGED <<ingress, queue, pipeline, sigCall, receiverInstance, config, env,
                       verifyCalls, fetchCall, getCall, categories, transactionRows, calls>>

\* ensureDefaultAccount: the re-read after the unique violation
EnsureRetry ==
    \E s \in SaverIds : \E storage \in StorageOutcomes :
        /\ storageErrors' = Count(storage)
        /\ saves[s].accountId.pc = "retry"
        /\ LET retry == selectDefaultAccount(accounts, saves[s].userId, storage)
               branch == [saves[s].accountId EXCEPT !.retried = TRUE]
           IN  saves' = [saves EXCEPT ![s] = PromiseAll([@ EXCEPT !.accountId =
                   IF retry # NullId THEN Returned(branch, retry)
                   ELSE [branch EXCEPT !.pc = "failed"]])]
        /\ UNCHANGED <<ingress, queue, pipeline, sigCall, receiverInstance, config, env,
                       verifyCalls, fetchCall, getCall, accounts, categories,
                       transactionRows, calls>>

\* resolveCategoryId: the read by name
ResolveSelect ==
    \E s \in SaverIds : \E storage \in StorageOutcomes :
        /\ storageErrors' = Count(storage)
        /\ saves[s].categoryId.pc = "select"
        /\ LET existing == selectCategory(categories, saves[s].category, storage)
               branch == saves[s].categoryId
           IN  saves' = [saves EXCEPT ![s] = PromiseAll([@ EXCEPT !.categoryId =
                   IF existing # NullId THEN Returned(branch, existing)
                   ELSE [branch EXCEPT !.pc = "insert"]])]
        /\ UNCHANGED <<ingress, queue, pipeline, sigCall, receiverInstance, config, env,
                       verifyCalls, fetchCall, getCall, accounts, categories,
                       transactionRows, calls>>

\* resolveCategoryId: the insert; if (error) throw new Error("Failed to create
\* category ...")
ResolveInsert ==
    \E s \in SaverIds : \E storage \in StorageOutcomes :
        /\ storageErrors' = Count(storage)
        /\ saves[s].categoryId.pc = "insert"
        /\ LET created == insertCategory(categories, saves[s].category, RowId(s), storage)
               branch == saves[s].categoryId
           IN  /\ categories' = created.table
               /\ saves' = [saves EXCEPT ![s] = PromiseAll([@ EXCEPT !.categoryId =
                      IF created.code = "null" THEN Returned(branch, RowId(s))
                      ELSE [branch EXCEPT !.pc = "failed"]])]
        /\ UNCHANGED <<ingress, queue, pipeline, sigCall, receiverInstance, config, env,
                       verifyCalls, fetchCall, getCall, accounts, transactionRows, calls>>

\* insertTransaction with the two ids
InsertTransaction ==
    \E s \in SaverIds : \E storage \in StorageOutcomes :
        /\ storageErrors' = Count(storage)
        /\ saves[s].pc = "insertTransaction"
        /\ transactionRows' =
              IF storage = "error" THEN transactionRows
              ELSE transactionRows \cup
                       {[id |-> RowId(s), user_id |-> saves[s].userId,
                         account_id |-> saves[s].accountId.id,
                         category_id |-> saves[s].categoryId.id]}
        /\ saves' = [saves EXCEPT ![s].pc = IF storage = "error" THEN "rejected"
                                            ELSE "returned"]
        /\ UNCHANGED <<ingress, queue, pipeline, sigCall, receiverInstance, config, env,
                       verifyCalls, fetchCall, getCall, accounts, categories, calls>>

\* --------------------------------------------------------------------------
\* Specification of the pipeline: broker, worker, ledger
\* --------------------------------------------------------------------------
Init ==
    /\ config = NoConfig
    /\ env = ProcessEnv
    /\ accounts = MigratedAccounts
    /\ categories = SeededCategories
    /\ transactionRows = {}
    /\ saves = [s \in SaverIds |-> NoSave]
    /\ storageErrors = 0
    /\ rawCall = NoRaw
    /\ errorCall = NoErrorCall
    /\ parseCall = NoParse
    /\ syncCall = NoSync
    /\ receiverInstance = NoReceiver
    /\ verifyCalls = <<>>
    /\ fetchCall = NoFetch
    /\ getCall = NoGet
    /\ ingress = IdleIngress
    /\ queue = [m \in MsgIds |-> "none"]
    /\ deliveries = 0
    /\ workers = [w \in WorkerIds |-> IdleWorker]
    /\ processed_messages = [m \in MsgIds |-> NoRow]
    /\ transactions = [m \in MsgIds |-> 0]
    /\ sent = [m \in MsgIds |-> <<>>]
    /\ claims = [m \in MsgIds |-> 0]
    /\ abandoned = [m \in MsgIds |-> FALSE]
    /\ response = NoResponse
    /\ sigCall = NoCall

Next ==
    \/ Publish
    \/ BrokerDeliver
    \/ ForgedDeliver
    \/ WClaim
    \/ WDownload
    \/ WParse
    \/ WSendHelp
    \/ WUpsertUser
    \/ WResolve
    \/ WInsert
    \/ WSendConfirm
    \/ WMarkProcessed
    \/ WMarkError
    \/ WCrash

Spec == Init /\ [][Next]_vars

\* --------------------------------------------------------------------------
\* Specification of the ingress handler and the broker's queue
\* --------------------------------------------------------------------------
NextIngress ==
    \/ IngressPost
    \/ PublishSettle
    \/ IngressRespond
    \/ IngressGet

SpecIngress == Init /\ [][NextIngress]_vars

\* --------------------------------------------------------------------------
\* Specification of the broker-signature verifier: calls of one process, one
\* after the other, with the keys of the configuration
\* --------------------------------------------------------------------------
VerifyCall ==
    \E key \in SignerKeys : \E signed \in MsgIds : \E body \in MsgIds :
        /\ Len(verifyCalls) < MaxCalls
        /\ LET signature == Signature(key, signed)
               loaded == loadConfig(config, env).cached
               isValid == verifyQStashSignature(signature, body,
                                                loaded.QSTASH_CURRENT_SIGNING_KEY,
                                                loaded.QSTASH_NEXT_SIGNING_KEY,
                                                receiverInstance)
           IN  /\ config' = loaded
               /\ receiverInstance' = isValid.receiverInstance
               /\ verifyCalls' = Append(verifyCalls,
                      [signature |-> signature, body |-> body, ret |-> isValid.ret])
        /\ UNCHANGED <<ingress, queue, pipeline, sigCall, env, fetchCall, getCall,
                       repository, calls>>

NextVerify == VerifyCall

SpecVerify == Init /\ [][NextVerify]_vars

\* --------------------------------------------------------------------------
\* Specification of fetchWithRetry: one call, every sequence of outcomes
\* --------------------------------------------------------------------------
NextFetch ==
    \/ FetchStart
    \/ FetchRequest
    \/ FetchSleep

SpecFetch == Init /\ [][NextFetch]_vars

\* --------------------------------------------------------------------------
\* Specification of a deployment whose environment may lack variables: the
\* ingress POST handler, and the worker's handler from the request to the
\* point where it is about to claim. The broker may hold units of an earlier
\* deployment. The two functions read the same environment, so one cache
\* stands for both.
\* --------------------------------------------------------------------------
Environments ==
    {ProcessEnv \ {"GEMINI_API_KEY"}} \cup {ProcessEnv \ {key} : key \in REQUIRED_VARS}

InitConfig ==
    /\ config = NoConfig
    /\ env \in Environments
    /\ accounts = MigratedAccounts
    /\ categories = SeededCategories
    /\ transactionRows = {}
    /\ saves = [s \in SaverIds |-> NoSave]
    /\ storageErrors = 0
    /\ rawCall = NoRaw
    /\ errorCall = NoErrorCall
    /\ parseCall = NoParse
    /\ syncCall = NoSync
    /\ receiverInstance = NoReceiver
    /\ verifyCalls = <<>>
    /\ fetchCall = NoFetch
    /\ getCall = NoGet
    /\ ingress = IdleIngress
    /\ queue \in {[m \in MsgIds |-> state] : state \in {"none", "pending"}}
    /\ deliveries = 0
    /\ workers = [w \in WorkerIds |-> IdleWorker]
    /\ processed_messages = [m \in MsgIds |-> NoRow]
    /\ transactions = [m \in MsgIds |-> 0]
    /\ sent = [m \in MsgIds |-> <<>>]
    /\ claims = [m \in MsgIds |-> 0]
    /\ abandoned = [m \in MsgIds |-> FALSE]
    /\ response = NoResponse
    /\ sigCall = NoCall

NextConfig ==
    \/ IngressPost
    \/ PublishSettle
    \/ IngressRespond
    \/ BrokerDeliver
    \/ ForgedDeliver

SpecConfig == InitConfig /\ [][NextConfig]_vars

\* --------------------------------------------------------------------------
\* Specification of the repository: overlapping calls of
\* saveExpenseAsTransaction, made by worker invocations that process
\* different messages
\* --------------------------------------------------------------------------
NextSave ==
    \/ SaveStart
    \/ EnsureSelect
    \/ EnsureInsert
    \/ EnsureRetry
    \/ ResolveSelect
    \/ ResolveInsert
    \/ InsertTransaction

SpecSave == Init /\ [][NextSave]_vars

\* --------------------------------------------------------------------------
\* Specification of the signature verifier alone: every header against
\* every body
\* --------------------------------------------------------------------------
\* One request to either handler: a provider POST whose stream arrives in
\* chunks, or a broker delivery signed over its text with one of the keys
InitRaw ==
    /\ config = NoConfig
    /\ env = ProcessEnv
    /\ accounts = MigratedAccounts
    /\ categories = SeededCategories
    /\ transactionRows = {}
    /\ saves = [s \in SaverIds |-> NoSave]
    /\ storageErrors = 0
    /\ receiverInstance = NoReceiver
    /\ verifyCalls = <<>>
    /\ fetchCall = NoFetch
    /\ getCall = NoGet
    /\ ingress = IdleIngress
    /\ queue = [m \in MsgIds |-> "none"]
    /\ deliveries = 0
    /\ workers = [w \in WorkerIds |-> IdleWorker]
    /\ processed_messages = [m \in MsgIds |-> NoRow]
    /\ transactions = [m \in MsgIds |-> 0]
    /\ sent = [m \in MsgIds |-> <<>>]
    /\ claims = [m \in MsgIds |-> 0]
    /\ abandoned = [m \in MsgIds |-> FALSE]
    /\ response = NoResponse
    /\ sigCall = NoCall
    /\ errorCall = NoErrorCall
    /\ parseCall = NoParse
    /\ syncCall = NoSync
    /\ \E text \in RawTexts :
          \/ \E chunks \in Chunkings(text) :
                rawCall = [NoRaw EXCEPT !.handler = "webhook", !.chunks = chunks]
          \/ \E contentType \in ContentTypes : \E key \in SignerKeys :
                rawCall = [NoRaw EXCEPT !.handler = "process-message",
                                        !.chunks = <<text>>,
                                        !.contentType = contentType,
                                        !.signature = Signature(key, text)]

NextRaw == RawIngress \/ RawWorker

SpecRaw == InitRaw /\ [][NextRaw]_vars

\* Error messages of every length up to MaxOverlong characters over the
\* limit; the character at each place tells the place
Digits == "0123456789"
CharAt(n) == SubSeq(Digits, (n % 10) + 1, (n % 10) + 1)
RECURSIVE Places(_, _)
Places(from, to) ==
    IF from > to THEN ""
    ELSE IF from = to THEN CharAt(from)
    ELSE LET mid == (from + to) \div 2
         IN  Places(from, mid) \o Places(mid + 1, to)
Message(n) == Places(1, n)
ErrorMessages == {Message(n) : n \in 0..(MaxErrorLength + MaxOverlong)}

\* One call of markMessageError for a claimed message
InitMarkError ==
    /\ config = NoConfig
    /\ env = ProcessEnv
    /\ accounts = MigratedAccounts
    /\ categories = SeededCategories
    /\ transactionRows = {}
    /\ saves = [s \in SaverIds |-> NoSave]
    /\ storageErrors = 0
    /\ receiverInstance = NoReceiver
    /\ verifyCalls = <<>>
    /\ fetchCall = NoFetch
    /\ getCall = NoGet
    /\ ingress = IdleIngress
    /\ queue = [m \in MsgIds |-> "none"]
    /\ deliveries = 0
    /\ workers = [w \in WorkerIds |-> IdleWorker]
    /\ transactions = [m \in MsgIds |-> 0]
    /\ sent = [m \in MsgIds |-> <<>>]
    /\ abandoned = [m \in MsgIds |-> FALSE]
    /\ response = NoResponse
    /\ sigCall = NoCall
    /\ rawCall = NoRaw
    /\ parseCall = NoParse
    /\ syncCall = NoSync
    /\ \E wamid \in MsgIds : \E errorMessage \in ErrorMessages :
          /\ processed_messages =
                claimMessageId([m \in MsgIds |-> NoRow], wamid, "ok").table
          /\ claims = [m \in MsgIds |-> IF m = wamid THEN 1 ELSE 0]
          /\ errorCall = [wamid |-> wamid, errorMessage |-> errorMessage,
                          done |-> FALSE]

\* await markMessageError(msg.id, errorMsg)
MarkErrorCall ==
    /\ ~errorCall.done
    /\ \E storage \in {"ok", "error"} :
          processed_messages' = markMessageError(processed_messages, errorCall.wamid,
                                                 errorCall.errorMessage, storage)
    /\ errorCall' = [errorCall EXCEPT !.done = TRUE]
    /\ UNCHANGED <<ingress, queue, deliveries, workers, transactions, sent, claims,
                   abandoned, response, sigCall, receiverInstance, config, env,
                   verifyCalls, fetchCall, getCall, repository, rawCall,
                   parseCall,
                   syncCall>>

NextMarkError == MarkErrorCall

SpecMarkError == InitMarkError /\ [][NextMarkError]_vars

\* One call of one of the three parsing functions
InitParse ==
    /\ config = NoConfig
    /\ env = ProcessEnv
    /\ accounts = MigratedAccounts
    /\ categories = SeededCategories
    /\ transactionRows = {}
    /\ saves = [s \in SaverIds |-> NoSave]
    /\ storageErrors = 0
    /\ receiverInstance = NoReceiver
    /\ verifyCalls = <<>>
    /\ fetchCall = NoFetch
    /\ getCall = NoGet
    /\ ingress = IdleIngress
    /\ queue = [m \in MsgIds |-> "none"]
    /\ deliveries = 0
    /\ workers = [w \in WorkerIds |-> IdleWorker]
    /\ processed_messages = [m \in MsgIds |-> NoRow]
    /\ transactions = [m \in MsgIds |-> 0]
    /\ sent = [m \in MsgIds |-> <<>>]
    /\ claims = [m \in MsgIds |-> 0]
    /\ abandoned = [m \in MsgIds |-> FALSE]
    /\ response = NoResponse
    /\ sigCall = NoCall
    /\ rawCall = NoRaw
    /\ errorCall = NoErrorCall
    /\ syncCall = NoSync
    /\ \/ \E message \in Messages :
             parseCall = [NoParse EXCEPT !.fn = "parseExpenseRegex", !.message = message]
       \/ parseCall = [NoParse EXCEPT !.fn = "parseExpenseLLM", !.geminiKey = TRUE]
       \/ \E message \in Messages : \E geminiKey, media \in BOOLEAN :
             parseCall = [NoParse EXCEPT !.fn = "parseExpense", !.message = message,
                                         !.geminiKey = geminiKey, !.media = media]

NextParse == CallParseExpenseRegex \/ CallParseExpenseLLM \/ CallParseExpense

SpecParse == InitParse /\ [][NextParse]_vars

NextSync == SyncPost \/ SyncProcess

SpecSync == Init /\ [][NextSync]_vars

InitSig ==
    /\ config = NoConfig
    /\ env = ProcessEnv
    /\ accounts = MigratedAccounts
    /\ categories = SeededCategories
    /\ transactionRows = {}
    /\ saves = [s \in SaverIds |-> NoSave]
    /\ storageErrors = 0
    /\ rawCall = NoRaw
    /\ errorCall = NoErrorCall
    /\ parseCall = NoParse
    /\ syncCall = NoSync
    /\ receiverInstance = NoReceiver
    /\ verifyCalls = <<>>
    /\ fetchCall = NoFetch
    /\ getCall = NoGet
    /\ ingress = IdleIngress
    /\ queue = [m \in MsgIds |-> "none"]
    /\ deliveries = 0
    /\ workers = [w \in WorkerIds |-> IdleWorker]
    /\ processed_messages = [m \in MsgIds |-> NoRow]
    /\ transactions = [m \in MsgIds |-> 0]
    /\ sent = [m \in MsgIds |-> <<>>]
    /\ claims = [m \in MsgIds |-> 0]
    /\ abandoned = [m \in MsgIds |-> FALSE]
    /\ response = NoResponse
    /\ sigCall \in [rawBody : RawBodies, signature : AllHeaders, result : {"none"}]

Validate ==
    /\ sigCall.result = "none"
    /\ sigCall' = [sigCall EXCEPT !.result =
          validateWebhookSignature(sigCall.rawBody, sigCall.signature, AppSecret)]
    /\ UNCHANGED <<ingress, queue, pipeline, receiverInstance, side>>

NextSig == Validate

SpecSig == InitSig /\ [][NextSig]_vars

\* --------------------------------------------------------------------------
\* Properties of the pipeline (checked under Spec)
\* --------------------------------------------------------------------------

\* C1: for every message id, whatever the interleaving of the claimMessageId
\* calls for it, exactly one call returns true: at most one call has returned
\* true, that call is the one that created the row, and a call returns false
\* only once another call has returned true.
C1_ExactlyOneClaim ==
    /\ \A m \in MsgIds :
          claims[m] = IF processed_messages[m].exists THEN 1 ELSE 0
    /\ response.claimed \in {"true", "false"} => claims[response.wamid] = 1
    /\ \A w \in WorkerIds :
          workers[w].claimed # "none" =>
              /\ workers[w].claimed = "true"
              /\ claims[workers[w].wamid] = 1
    /\ \A v, w \in WorkerIds :
          (v # w /\ workers[v].claimed = "true" /\ workers[w].claimed = "true")
              => workers[v].wamid # workers[w].wamid

\* a call returns false while the invocation whose call returned true is
\* still running: two overlapping invocations, one true and one false
C1_Witness ==
    /\ response.claimed = "false"
    /\ \E w \in WorkerIds :
          /\ workers[w].claimed = "true"
          /\ workers[w].wamid = response.wamid

\* C2: at most one transaction row is persisted for a message id, whatever
\* the number of deliveries of its unit.
C2_AtMostOneTransaction == \A m \in MsgIds : transactions[m] <= 1

\* a unit is delivered again after its transaction was persisted and the
\* invocation that persisted it died
C2_Witness ==
    \E m \in MsgIds :
        /\ transactions[m] = 1
        /\ abandoned[m]
        /\ deliveries >= 2
        /\ response.wamid = m
        /\ response.body = "duplicate"

\* C3: at most one reply (confirmation or help) is sent for a message id.
C3_AtMostOneReply == \A m \in MsgIds : Len(sent[m]) <= 1

\* two invocations for one id overlap and one reply has been sent
C3_Witness ==
    \E v, w \in WorkerIds :
        /\ v # w
        /\ workers[v].pc = "markMessageProcessed"
        /\ workers[w].pc = "claimMessageId"
        /\ workers[v].wamid = workers[w].wamid
        /\ Len(sent[workers[v].wamid]) = 1

\* C4: an invocation that finds a ledger row for its message id ends in the
\* step of its claim: it answers 200 'duplicate' (unless the storage call
\* itself fails or the invocation dies) and leaves the ledger row, the
\* transactions and the replies as they are.
C4_DuplicateStep ==
    \A w \in WorkerIds :
        (/\ workers[w].pc = "claimMessageId"
         /\ processed_messages[workers[w].wamid].exists
         /\ workers'[w] # workers[w])
            => /\ workers'[w] = IdleWorker
               /\ UNCHANGED <<processed_messages, transactions, sent>>
               /\ response'.claimed # "true"
               /\ response'.claimed = "false" =>
                     /\ response'.status = 200
                     /\ response'.body = "duplicate"
                     /\ response'.wamid = workers[w].wamid

C4_DuplicateNoEffect == [][C4_DuplicateStep]_vars

\* 'duplicate' is answered for a row that a failed attempt marked with an error
C4_Witness ==
    /\ response.body = "duplicate"
    /\ response.status = 200
    /\ processed_messages[response.wamid].error = ErrorMsg
    /\ ~processed_messages[response.wamid].processed

\* C5: when a delivery is answered 200 for a message id of which an earlier
\* attempt claimed the id and then failed (row marked with an error) or died,
\* the message has been completed: its row has processed = true.
C5_RetryCompletes ==
    \A m \in MsgIds :
        (/\ response.wamid = m
         /\ response.status = 200
         /\ (processed_messages[m].error # "null" \/ abandoned[m]))
            => processed_messages[m].processed

\* C9: a worker POST without a signature or with one that no key verifies is
\* answered 401, never gets past verification, and changes nothing.
C9_ForgedStep ==
    /\ \A w \in WorkerIds : workers'[w].caller # "other"
    /\ response'.signature \in ForgedSignatures =>
          /\ response'.status = 401
          /\ UNCHANGED <<queue, deliveries, workers, processed_messages,
                         transactions, sent, claims>>

C9_ForgedRejected == [][C9_ForgedStep]_vars

\* a forged POST is refused while an invocation is at work
C9_Witness ==
    /\ response.signature = "invalid"
    /\ response.status = 401
    /\ \E w \in WorkerIds : workers[w].pc = "insertTransaction"

\* --------------------------------------------------------------------------
\* Properties of the ingress handler (checked under SpecIngress)
\* --------------------------------------------------------------------------

\* the header is the tag followed by hex digits that spell the digest
IsHexOf(s, bytes) ==
    /\ Len(s) = 2 * Len(bytes)
    /\ \A i \in 1..Len(bytes) :
          /\ HexVal(s[2 * i - 1]) >= 0
          /\ HexVal(s[2 * i]) >= 0
          /\ 16 * HexVal(s[2 * i - 1]) + HexVal(s[2 * i]) = bytes[i]

SignatureMatches(rawBody, signature) ==
    /\ signature # Undefined
    /\ StartsWith(signature, Tag256)
    /\ IsHexOf(Slice(signature, Len(Tag256)), createHmac(AppSecret, rawBody))

\* C6: when the handler answers a POST with N messages, a publish has been
\* attempted and has settled for each of them, every publish the broker
\* accepted is in the queue, and the answer is 200 whatever publishes failed.
C6_FanOutIsolated ==
    (ingress.pc = "done" /\ Len(ingress.items) >= 1) =>
        /\ \A i \in 1..Len(ingress.items) :
              /\ ingress.results[i] \in {"fulfilled", "rejected"}
              /\ ingress.results[i] = "fulfilled" => queue[ingress.items[i]] = "pending"
        /\ ingress.res.status = 200

\* the first publish failed, the second one was made and accepted
C6_Witness ==
    /\ ingress.pc = "done"
    /\ Len(ingress.items) = 2
    /\ ingress.results = <<"rejected", "fulfilled">>
    /\ queue[ingress.items[2]] = "pending"
    /\ queue[ingress.items[1]] = "none"
    /\ ingress.res.status = 200

\* C7: a provider POST from which N >= 1 messages are extracted (the
\* extraction has returned) is answered 200 'queued' with count = N, whatever
\* publishes failed.
C7_CountIsExtracted ==
    (/\ ingress.pc = "done"
     /\ SignatureMatches(ingress.rawBody, ingress.signature)
     /\ JSONparse(ingress.rawBody).object = WhatsAppTag
     /\ ~extractMessageItemsThrows(JSONparse(ingress.rawBody))
     /\ Len(extractMessageItems(JSONparse(ingress.rawBody))) >= 1)
        => /\ ingress.res.status = 200
           /\ ingress.res.body = "queued"
           /\ ingress.res.count = Len(extractMessageItems(JSONparse(ingress.rawBody)))

\* both publishes of a POST failed and the answer counts two
C7_Witness ==
    /\ ingress.pc = "done"
    /\ ingress.results = <<"rejected", "rejected">>
    /\ ingress.res.body = "queued"
    /\ ingress.res.count = 2

\* C8: a POST whose header is missing, has another tag or does not spell the
\* digest of the body is answered 401 and nothing of it is published.
C8_BadSignatureIs401 ==
    (ingress.pc # "idle" /\ ~SignatureMatches(ingress.rawBody, ingress.signature))
        => /\ ingress.pc = "done"
           /\ ingress.res.status = 401
           /\ ingress.items = <<>>

\* --------------------------------------------------------------------------
\* Properties of the signature verifier (checked under SpecSig)
\* --------------------------------------------------------------------------

\* C10: validateWebhookSignature returns true exactly when the header is the
\* tag followed by the hex digest of that body under the secret; a header
\* made for another body is rejected, the header made for this body is
\* accepted.
C10_TrueIffDigest ==
    sigCall.result # "none" =>
        /\ sigCall.result = "true"
              <=> SignatureMatches(sigCall.rawBody, sigCall.signature)
        /\ sigCall.signature = SignHeader(sigCall.rawBody, AppSecret)
              => sigCall.result = "true"
        /\ \A original \in RawBodies \ {sigCall.rawBody} :
              sigCall.signature = SignHeader(original, AppSecret)
                  => sigCall.result = "false"

\* a header made for another body has been rejected
C10_Witness ==
    /\ sigCall.result = "false"
    /\ \E original \in RawBodies \ {sigCall.rawBody} :
          sigCall.signature = SignHeader(original, AppSecret)

\* --------------------------------------------------------------------------
\* Properties of the worker's error handling and of its paths (checked under
\* Spec)
\* --------------------------------------------------------------------------

\* C15: every failure inside a worker invocation after signature
\* verification is answered by the handler itself: no exception leaves it,
\* and a 500 is the handler's 'Processing failed' answer for the message id.
C15_NoExceptionEscapes ==
    response.signature = "verified" =>
        /\ response.body \in {"duplicate", "processed", "Processing failed"}
        /\ response.status = 500 => response.body = "Processing failed"

\* C16: claimMessageId returns false only on a unique violation, that is,
\* when a row for the id exists already; on another storage error it raises:
\* the delivery is not answered 'duplicate', the broker gets a 5xx and keeps
\* the unit for a retry, and the ledger is as before.
C16_ClaimStep ==
    /\ response'.claimed = "false" =>
          /\ response'.body = "duplicate"
          /\ processed_messages[response'.wamid].exists
    /\ response'.body = "duplicate" => processed_messages[response'.wamid].exists
    /\ response'.claimed = "throw" =>
          /\ response'.status >= 500
          /\ response'.body # "duplicate"
          /\ queue' = queue
          /\ processed_messages' = processed_messages

C16_StorageErrorIsNotDuplicate == [][C16_ClaimStep]_vars

\* a claim hit a storage error on an id without a row: 500, and the unit is
\* still pending at the broker
C16_Witness ==
    /\ response.claimed = "throw"
    /\ response.status = 500
    /\ response.caller = "qstash"
    /\ queue[response.wamid] = "pending"
    /\ ~processed_messages[response.wamid].exists

\* C17 as stated: an attempt whose extraction yielded null has sent exactly
\* one help reply, saved no transaction, marked the record completed and not
\* failed, and answered 200 'processed'; it never answers 500.
C17_NullIsHelped ==
    response.parsed = "null" =>
        /\ response.status = 200
        /\ response.body = "processed"
        /\ sent[response.wamid] = <<"help">>
        /\ transactions[response.wamid] = 0
        /\ processed_messages[response.wamid].processed
        /\ processed_messages[response.wamid].error = "null"

\* C17, amended: an attempt whose extraction yielded null saves no
\* transaction and sends at most one reply, a help reply; it answers 200
\* 'processed' exactly when that reply was sent, and then the record is not
\* marked failed and is marked completed unless that ledger update failed;
\* otherwise (the send failed) it answers 500 and no reply was sent.
C17_NullIsHelpedWhenSent ==
    response.parsed = "null" =>
        /\ transactions[response.wamid] = 0
        /\ sent[response.wamid] \in {<<>>, <<"help">>}
        /\ sent[response.wamid] = <<"help">>
              <=> (response.status = 200 /\ response.body = "processed")
        /\ response.status = 200 =>
              /\ processed_messages[response.wamid].error = "null"
              /\ response.ledger = "ok" =>
                    processed_messages[response.wamid].processed
        /\ response.status # 200 =>
              /\ response.status = 500
              /\ sent[response.wamid] = <<>>

\* an unreadable image: one help reply, no transaction, record completed
C17_Witness ==
    /\ response.parsed = "null"
    /\ response.type = "image"
    /\ response.status = 200
    /\ sent[response.wamid] = <<"help">>
    /\ transactions[response.wamid] = 0
    /\ processed_messages[response.wamid].processed

\* C18: the steps of an attempt whose extraction succeeds come in the order
\* claim, extraction, user upsert, transaction persistence, confirmation
\* reply, mark completed, respond 200, each once: the calls of saveAndConfirm
\* are made by a claimed attempt that has its expense; when the transaction
\* is about to be saved nothing was saved or sent; when the confirmation is
\* about to be sent the transaction is saved, nothing was sent and the
\* record is not completed; a confirmation is never there without its
\* transaction; a completed record with a transaction has its confirmation;
\* and the attempt that answers 200 has claimed once, saved one transaction
\* and sent one confirmation.
C18_OrderedOnce ==
    /\ \A w \in WorkerIds :
          LET slot == workers[w]
          IN  /\ slot.pc \in {"upsertUser", "resolve", "insertTransaction", "sendConfirm"}
                    => /\ slot.claimed = "true"
                       /\ slot.parsed = "expense"
                       /\ claims[slot.wamid] = 1
                       /\ ~processed_messages[slot.wamid].processed
              /\ slot.pc \in {"upsertUser", "resolve", "insertTransaction"}
                    => /\ transactions[slot.wamid] = 0
                       /\ sent[slot.wamid] = <<>>
              /\ slot.pc = "sendConfirm"
                    => /\ transactions[slot.wamid] = 1
                       /\ sent[slot.wamid] = <<>>
              /\ (slot.pc = "markMessageProcessed" /\ slot.parsed = "expense")
                    => /\ transactions[slot.wamid] = 1
                       /\ sent[slot.wamid] = <<"confirm">>
                       /\ ~processed_messages[slot.wamid].processed
    /\ \A m \in MsgIds :
          /\ sent[m] # <<>> /\ Head(sent[m]) = "confirm" => transactions[m] = 1
          /\ (processed_messages[m].processed /\ transactions[m] = 1)
                => sent[m] = <<"confirm">>
    /\ (response.parsed = "expense" /\ response.status = 200)
          => /\ response.body = "processed"
             /\ claims[response.wamid] = 1
             /\ transactions[response.wamid] = 1
             /\ sent[response.wamid] = <<"confirm">>
             /\ response.ledger = "ok" => processed_messages[response.wamid].processed

\* a first delivery went through: claimed, saved, confirmed, completed, 200
C18_Witness ==
    /\ response.parsed = "expense"
    /\ response.status = 200
    /\ deliveries = 1
    /\ claims[response.wamid] = 1
    /\ transactions[response.wamid] = 1
    /\ sent[response.wamid] = <<"confirm">>
    /\ processed_messages[response.wamid].processed

\* C19 as stated: when an attempt ends with the handler's 500, no reply was
\* sent and the record's error field holds the error summary.
C19_FailureSilentAndMarked ==
    (response.status = 500 /\ response.body = "Processing failed") =>
        /\ sent[response.wamid] = <<>>
        /\ processed_messages[response.wamid].error = ErrorMsg

\* C19, amended: when an attempt ends with the handler's 500, no reply was
\* sent for the message, the record is not completed, and the record's error
\* field holds the error summary unless that ledger update itself failed (it
\* is then left empty).
C19_FailureSilent ==
    (response.status = 500 /\ response.body = "Processing failed") =>
        /\ sent[response.wamid] = <<>>
        /\ ~processed_messages[response.wamid].processed
        /\ response.ledger = "ok" =>
              processed_messages[response.wamid].error = ErrorMsg
        /\ response.ledger = "error" =>
              processed_messages[response.wamid].error = "null"

\* a failed media download: 500, nothing sent, the record marked
C19_Witness ==
    /\ response.status = 500
    /\ response.body = "Processing failed"
    /\ response.type = "audio"
    /\ response.parsed = "none"
    /\ sent[response.wamid] = <<>>
    /\ processed_messages[response.wamid].error = ErrorMsg

\* --------------------------------------------------------------------------
\* Properties of the broker-signature verifier (checked under SpecVerify)
\* --------------------------------------------------------------------------
ValidUnder(signature, body, key) == signature.key = key /\ signature.body = body

\* C11: every call of verifyQStashSignature in a process, the first one and
\* the ones served by the cached Receiver alike, returns true when the
\* signature is valid for the body under the configured current signing key
\* or under the configured next signing key, and false only when it is valid
\* under neither.
C11_CurrentOrNextAccepted ==
    \A i \in 1..Len(verifyCalls) :
        LET call == verifyCalls[i]
        IN  call.ret <=>
               \/ ValidUnder(call.signature, call.body, config.QSTASH_CURRENT_SIGNING_KEY)
               \/ ValidUnder(call.signature, call.body, config.QSTASH_NEXT_SIGNING_KEY)

\* the first call was rejected and built the Receiver; a later call signed
\* with the next key is accepted
C11_Witness ==
    /\ Len(verifyCalls) >= 2
    /\ ~verifyCalls[1].ret
    /\ verifyCalls[2].signature.key = config.QSTASH_NEXT_SIGNING_KEY
    /\ verifyCalls[2].ret

\* --------------------------------------------------------------------------
\* Properties of fetchWithRetry (checked under SpecFetch)
\* --------------------------------------------------------------------------
\* a 4xx status other than 429
NonTransient(outcome) ==
    ~outcome.network /\ outcome.status >= 400 /\ outcome.status <= 499
        /\ outcome.status # 429

\* HTTP 429, HTTP >= 500, or a network-level error
Transient(outcome) ==
    outcome.network \/ outcome.status = 429 \/ outcome.status >= 500

\* C12: a response with a non-transient status makes the call fail at once:
\* it is the last request issued, no backoff sleep follows it, and the call
\* has raised the error of that response.
C12_NonTransientFailsImmediately ==
    \A i \in 1..Len(fetchCall.requests) :
        NonTransient(fetchCall.requests[i]) =>
            /\ fetchCall.pc = "thrown"
            /\ Len(fetchCall.requests) = i
            /\ Len(fetchCall.sleeps) = i - 1
            /\ fetchCall.lastError = fetchCall.requests[i]

\* C13: a transient failure of one of the first three requests is retried,
\* and three transient failures followed by a 200 return that response on
\* the 4th request, after backoff delays of 800, 1600 and 3200 ms in that
\* order.
C13_TransientRetried ==
    /\ \A i \in 1..Len(fetchCall.requests) :
          (i <= 3 /\ Transient(fetchCall.requests[i])) =>
              \/ Len(fetchCall.requests) > i
              \/ fetchCall.pc \in {"sleep", "fetch"}
    /\ (/\ Len(fetchCall.requests) = 4
        /\ \A i \in 1..3 : Transient(fetchCall.requests[i])
        /\ fetchCall.requests[4].status = 200)
          => /\ fetchCall.pc = "returned"
             /\ fetchCall.res = fetchCall.requests[4]
             /\ fetchCall.sleeps = <<800, 1600, 3200>>

\* 503, 429 and a network error, then 200 on the 4th request
C13_Witness ==
    /\ fetchCall.pc = "returned"
    /\ fetchCall.requests =
          <<HttpResponse(503), HttpResponse(429), NetworkError, HttpResponse(200)>>

\* C14: a call issues at most 4 requests and sleeps at most 3 times, never
\* after its final attempt; it can always take its next step until it has
\* returned or raised; and when all 4 attempts fail transiently it raises
\* the failure of the 4th attempt.
C14_BoundedAttempts ==
    /\ Len(fetchCall.requests) <= 4
    /\ Len(fetchCall.sleeps) <= 3
    /\ fetchCall.pc \in {"returned", "thrown"} =>
          Len(fetchCall.sleeps) = Len(fetchCall.requests) - 1
    /\ fetchCall.pc \in {"fetch", "sleep"} => ENABLED (FetchRequest \/ FetchSleep)
    /\ (/\ Len(fetchCall.requests) = 4
        /\ \A i \in 1..4 : Transient(fetchCall.requests[i]))
          => /\ fetchCall.pc = "thrown"
             /\ fetchCall.lastError = fetchCall.requests[4]

\* four transient failures, the last one a 429: the call has raised it
C14_Witness ==
    /\ fetchCall.pc = "thrown"
    /\ fetchCall.requests =
          <<HttpResponse(503), HttpResponse(503), NetworkError, HttpResponse(429)>>
    /\ fetchCall.lastError = HttpResponse(429)

\* --------------------------------------------------------------------------
\* Properties of the GET handshake (checked under SpecIngress)
\* --------------------------------------------------------------------------
\* C20 as stated: the token alone decides. A GET whose token is the
\* configured one is answered 200 with the challenge, one whose token
\* differs 403, and nothing is enqueued, claimed, persisted or sent.
C20_TokenStep ==
    getCall' # getCall =>
        /\ IF getCall'.token = config'.WHATSAPP_VERIFY_TOKEN
           THEN getCall'.res = [status |-> 200, body |-> getCall'.challenge]
           ELSE getCall'.res.status = 403
        /\ UNCHANGED <<ingress, queue, pipeline>>

C20_TokenDecides == [][C20_TokenStep]_vars

\* C20, amended: a GET with hub.mode "subscribe" whose token is the
\* configured one is answered 200 with the challenge echoed; a GET whose
\* token differs, or whose hub.mode is not "subscribe", is answered 403; in
\* every case nothing is enqueued, claimed, persisted or sent.
C20_SubscribeStep ==
    getCall' # getCall =>
        /\ IF /\ getCall'.mode = "subscribe"
              /\ getCall'.token = config'.WHATSAPP_VERIFY_TOKEN
           THEN getCall'.res = [status |-> 200, body |-> getCall'.challenge]
           ELSE getCall'.res.status = 403
        /\ UNCHANGED <<ingress, queue, pipeline>>

C20_SubscribeAndTokenDecide == [][C20_SubscribeStep]_vars

\* a handshake answered with its challenge while a unit is in the queue
C20_Witness ==
    /\ getCall.mode = "subscribe"
    /\ getCall.token = config.WHATSAPP_VERIFY_TOKEN
    /\ getCall.res = [status |-> 200, body |-> "challenge_1"]
    /\ \E m \in MsgIds : queue[m] = "pending"

\* --------------------------------------------------------------------------
\* Properties of the ingress handler's parsing and fan-out (checked under
\* SpecIngress)
\* --------------------------------------------------------------------------

\* no change whose field is "messages" carries a message
CarriesNoMessage(body) ==
    \A e \in 1..Len(body.entry) : \A c \in 1..Len(body.entry[e]) :
        body.entry[e][c].field = "messages" => body.entry[e][c].messages = <<>>

\* a POST is received: the handler takes a request
Received == ingress.pc \in {"idle", "done"} /\ ingress'.pc # "idle" /\ ingress' # ingress

NothingToDo(rawBody) ==
    /\ ~JSONparseThrows(rawBody)
    /\ \/ JSONparse(rawBody).object # WhatsAppTag
       \/ CarriesNoMessage(JSONparse(rawBody))

C21_Step ==
    (/\ Received
     /\ SignatureMatches(ingress'.rawBody, ingress'.signature)
     /\ NothingToDo(ingress'.rawBody))
        => /\ ingress'.pc = "done"
           /\ ingress'.res.status = 200
           /\ ingress'.res.body \in {"ignored", "no_messages"}
           /\ ingress'.results = <<>>
           /\ queue' = queue

\* C21: an authenticated POST whose body is an object with another tag than
\* the provider's, or one that carries no message, is answered 200 at once: no publish is started
\* and the queue is left as it was.
C21_NothingToDoIs200 == [][C21_Step]_vars

\* both cases have been answered: another product's object that carries a
\* message, and a provider object that carries none
C21_Witness ==
    /\ ingress.pc = "done"
    /\ SignatureMatches(ingress.rawBody, ingress.signature)
    /\ ingress.rawBody = 1
    /\ JSONparse(ingress.rawBody).object # WhatsAppTag
    /\ ~CarriesNoMessage(JSONparse(ingress.rawBody))
    /\ ingress.res = Res(200, "ignored")
    /\ \E m \in MsgIds : queue[m] = "pending"

\* how many times x occurs in the sequence seq
Occurrences(seq, x) == Cardinality({i \in 1..Len(seq) : seq[i] = x})

\* the places of a body where message m stands under a "messages" change
PlacesOf(body, m) ==
    UNION {UNION {{<<e, c, i>> : i \in {j \in 1..Len(body.entry[e][c].messages) :
                                        /\ body.entry[e][c].field = "messages"
                                        /\ body.entry[e][c].messages[j] = m}} :
                  c \in 1..Len(body.entry[e])} :
           e \in 1..Len(body.entry)}

\* C22: the units of a request are exactly the messages found under changes
\* whose field is 'messages', over all entries and changes, none comes from a
\* change of another field, and every unit has exactly one publish: one
\* outcome per unit, an accepted one is in the queue, and none is pending
\* once the request is answered.
C22_OneUnitPerMessage ==
    (/\ ingress.pc # "idle"
     /\ ingress.res.status \notin {401, 500}
     /\ SignatureMatches(ingress.rawBody, ingress.signature))
        => LET body == JSONparse(ingress.rawBody)
           IN  (body.object = WhatsAppTag /\ ~CarriesNoMessage(body)) =>
                  /\ \A m \in MsgIds :
                        Occurrences(ingress.items, m) = Cardinality(PlacesOf(body, m))
                  /\ \A i \in 1..Len(ingress.items) : ingress.items[i] \in MsgIds
                  /\ DOMAIN ingress.results = DOMAIN ingress.items
                  /\ \A i \in 1..Len(ingress.items) :
                        /\ ingress.results[i] \in {"pending", "fulfilled", "rejected"}
                        /\ ingress.results[i] = "fulfilled" =>
                              queue[ingress.items[i]] = "pending"
                        /\ ingress.pc = "done" => ingress.results[i] # "pending"

\* a body with two entries, a status change and a change of another field
\* that carries a message: two units, two publishes settled
C22_Witness ==
    /\ ingress.pc = "done"
    /\ Len(JSONparse(ingress.rawBody).entry) = 2
    /\ \E e \in 1..2 : \E c \in 1..Len(JSONparse(ingress.rawBody).entry[e]) :
          /\ JSONparse(ingress.rawBody).entry[e][c].field # "messages"
          /\ JSONparse(ingress.rawBody).entry[e][c].messages # <<>>
    /\ ingress.items = <<1, 2>>
    /\ ingress.results = <<"fulfilled", "fulfilled">>

\* --------------------------------------------------------------------------
\* Properties of the ledger record (checked under Spec)
\* --------------------------------------------------------------------------

\* worker w is about to run the call pc for message m
At(w, pc, m) == workers[w].pc = pc /\ workers[w].wamid = m

C23_RowStep(m) ==
    LET row == processed_messages[m]
        next == processed_messages'[m]
    IN  /\ ~next.exists => next = NoRow
        /\ row.exists => next.exists
        /\ (~row.exists /\ next.exists) =>
              /\ next = NewRow
              /\ next.processed = FALSE /\ next.error = "null"
              /\ \E w \in WorkerIds : At(w, "claimMessageId", m)
              /\ claims'[m] = claims[m] + 1
        /\ row.processed => next.processed
        /\ (~row.processed /\ next.processed) =>
              /\ row.exists /\ row.error = "null"
              /\ \E w \in WorkerIds : At(w, "markMessageProcessed", m)
        /\ next.error # row.error =>
              /\ row.exists /\ ~row.processed /\ row.error = "null"
              /\ \E w \in WorkerIds : At(w, "markMessageError", m)
        /\ ~(next.processed /\ next.error # "null")

\* C23: the record of a message is created only by a successful claim, with
\* processed = false and no error; processed becomes true only in
\* markMessageProcessed and never goes back; error is written only in
\* markMessageError; a record is never deleted, and it is never both
\* completed and failed.
C23_LedgerLifecycle == [][\A m \in MsgIds : C23_RowStep(m)]_vars

\* a record was claimed and completed, and a later delivery of the same
\* message was answered as a duplicate: the record is as it was
C23_Witness ==
    \E m \in MsgIds :
        /\ processed_messages[m] = [NewRow EXCEPT !.processed = TRUE]
        /\ claims[m] = 1
        /\ response.wamid = m
        /\ response.body = "duplicate"

\* the pipeline of the answered message succeeded: a message of a kind that
\* is processed had its last step, the message to the sender; a message of
\* another kind has no step that can fail
PipelineSucceeded ==
    response.type \in {"text", "audio", "image"} => sent[response.wamid] # <<>>

\* C24: the response after the ledger update is decided by the pipeline
\* alone: 200 'processed' when it succeeded and 500 when it failed, whether
\* markMessageProcessed or markMessageError could write the record or not.
C24_LedgerFailureKeepsResponse ==
    response.ledger # "none" =>
        /\ response.ledger \in {"ok", "error"}
        /\ IF PipelineSucceeded
           THEN response.status = 200 /\ response.body = "processed"
           ELSE response.status = 500 /\ response.body = "Processing failed"

\* the pipeline succeeded, markMessageProcessed could not write the record,
\* and the answer is 200 'processed'
C24_Witness ==
    /\ response.ledger = "error"
    /\ PipelineSucceeded
    /\ response.type = "text"
    /\ ~processed_messages[response.wamid].processed
    /\ response.status = 200

\* --------------------------------------------------------------------------
\* Properties of the configuration loader (checked under SpecConfig)
\* --------------------------------------------------------------------------

C25_Step ==
    /\ (\E key \in REQUIRED_VARS : key \notin env) =>
          /\ UNCHANGED <<queue, workers, processed_messages, transactions, sent, claims,
                         config, receiverInstance>>
          /\ ingress' # ingress =>
                /\ ingress'.pc = "done"
                /\ ingress'.items = <<>> /\ ingress'.results = <<>>
                /\ ingress'.res = Res(500, "unhandled")
          /\ response' # response =>
                response'.status = 500 /\ response'.body = "unhandled"
    /\ (\A key \in REQUIRED_VARS : key \in env) =>
          /\ config' = AppConfigOf(env)
          /\ config' # NoConfig

\* C25: when a required variable is not set, every request to the ingress
\* or to the worker ends in loadConfig's exception: nothing is published,
\* no invocation goes on to the claim, nothing is stored or sent,
\* and the answer is the platform's 500. When only the optional
\* GEMINI_API_KEY is not set, loadConfig returns the configuration.
C25_MissingVarStopsRequest == [][C25_Step]_vars

\* QSTASH_TOKEN is not set: an authenticated POST with messages ended in the
\* exception with nothing published, and a delivery signed by the broker
\* ended in it with its unit still pending and no claim
C25_Witness ==
    /\ "QSTASH_TOKEN" \notin env
    /\ ingress.pc = "done"
    /\ SignatureMatches(ingress.rawBody, ingress.signature)
    /\ ~NothingToDo(ingress.rawBody)
    /\ ingress.res = Res(500, "unhandled")
    /\ response.signature \in BrokerSignatures
    /\ response.status = 500
    /\ \A m \in MsgIds : claims[m] = 0 /\ ~processed_messages[m].exists

C26_Step ==
    /\ (ingress'.pc = "done" /\ ingress'.res.body = "queued") =>
          /\ ingress'.res.status = 200
          /\ Len(ingress'.results) = Len(ingress'.items)
          /\ \A i \in 1..Len(ingress'.results) :
                ingress'.results[i] \in {"fulfilled", "rejected"}
    /\ ingress.pc = "done" =>
          /\ queue' = queue
          /\ ingress'.pc = "done" => ingress'.results = ingress.results \/ Received

\* C26: when the handler answers 200 'queued', every publish of the request
\* has settled, fulfilled or rejected; after the answer no publish of that
\* request is pending and none is made: the queue stays as it is until
\* another request is received.
C26_RespondsAfterAllSettled == [][C26_Step]_vars

\* the answer 'queued' was sent after one publish was accepted and the other
\* one failed
C26_Witness ==
    /\ ingress.pc = "done"
    /\ ingress.res = [status |-> 200, body |-> "queued", count |-> 2]
    /\ ingress.results = <<"fulfilled", "rejected">>
    /\ queue[ingress.items[1]] = "pending"

\* a step of a request served by the ingress handler
IngressStep == ingress' # ingress \/ queue' # queue

C27_Step ==
    IngressStep =>
        /\ UNCHANGED <<workers, processed_messages, claims, transactions, sent, abandoned,
                       response, deliveries, fetchCall>>
        /\ \A m \in MsgIds :
              queue'[m] # queue[m] =>
                  /\ queue[m] = "none" /\ queue'[m] = "pending"
                  /\ \E i \in 1..Len(ingress.items) : ingress.items[i] = m

\* C27: no step of an ingress POST, from the request to the response, parses
\* an expense, fetches media, claims a message, writes a user, category or
\* transaction, or replies to the sender; the only thing it changes outside
\* the request is the broker's queue, by publishing a unit of the request.
C27_IngressOnlyPublishes == [][C27_Step]_vars

\* a request was answered 'queued' with its unit published, and there is no
\* claim, no ledger record, no transaction and no reply
C27_Witness ==
    /\ ingress.pc = "done"
    /\ ingress.res.body = "queued"
    /\ \E i \in 1..Len(ingress.items) : queue[ingress.items[i]] = "pending"
    /\ \A m \in MsgIds :
          /\ claims[m] = 0 /\ ~processed_messages[m].exists
          /\ transactions[m] = 0 /\ sent[m] = <<>>
    /\ \A w \in WorkerIds : workers[w] = IdleWorker

\* --------------------------------------------------------------------------
\* Properties of the repository (checked under SpecSave)
\* --------------------------------------------------------------------------

\* the transaction rows a call has inserted
RowsOf(s) == {row \in transactionRows : row.id = RowId(s)}

\* C28: a call of saveExpenseAsTransaction gets to the insert of its
\* transaction only when ensureDefaultAccount and resolveCategoryId have both
\* returned, and the row carries the two ids they returned, which are ids of
\* rows of accounts and categories; a call one of whose two resolutions
\* failed is rejected and has inserted no transaction.
C28_InsertAfterBothResolved ==
    \A s \in SaverIds :
        LET save == saves[s]
        IN  /\ (save.pc \in {"insertTransaction", "returned"} \/ RowsOf(s) # {}) =>
                  /\ save.accountId.pc = "done" /\ save.categoryId.pc = "done"
                  /\ \E r \in accounts :
                        r.id = save.accountId.id /\ r.user_id = save.userId
                  /\ \E r \in categories :
                        r.id = save.categoryId.id /\ r.name = save.category
            /\ \A row \in RowsOf(s) :
                  /\ row.account_id = save.accountId.id
                  /\ row.category_id = save.categoryId.id
                  /\ row.user_id = save.userId
            /\ (save.accountId.pc = "failed" \/ save.categoryId.pc = "failed") =>
                  save.pc = "rejected" /\ RowsOf(s) = {}

\* one call has its category and is still creating its account, with no
\* transaction inserted; another call, whose account was resolved by the
\* re-read, has inserted its transaction
C28_Witness ==
    \E s, t \in SaverIds :
        /\ saves[s].categoryId.pc = "done" /\ saves[s].accountId.pc = "insert"
        /\ saves[s].pc = "Promise.all" /\ RowsOf(s) = {}
        /\ saves[t].pc = "returned" /\ saves[t].accountId.retried
        /\ Cardinality(RowsOf(t)) = 1

\* the default accounts of a user
DefaultAccounts(userId) == {r \in accounts : r.user_id = userId /\ r.is_default}

\* C29: however calls of ensureDefaultAccount for the same user overlap, the
\* user has at most one default account, every call that returned has
\* returned the id of that account, and as long as no storage call has
\* failed no call fails: the call that loses the insert re-reads the account.
C29_OneDefaultAccount ==
    /\ \A userId \in UserIds : Cardinality(DefaultAccounts(userId)) <= 1
    /\ \A s \in SaverIds :
          /\ saves[s].accountId.pc = "done" =>
                DefaultAccounts(saves[s].userId)
                    = {r \in accounts : r.id = saves[s].accountId.id}
          /\ (saves[s].accountId.pc = "failed" => storageErrors > 0)

\* two calls for the new user overlapped: both read no account, one created
\* it, the other one met the unique violation, re-read and returned the same
\* id
C29_Witness ==
    \E s, t \in SaverIds :
        /\ s # t
        /\ saves[s].userId = "new_user" /\ saves[t].userId = "new_user"
        /\ saves[s].accountId = [pc |-> "done", id |-> RowId(s), retried |-> FALSE]
        /\ saves[t].accountId = [pc |-> "done", id |-> RowId(s), retried |-> TRUE]
        /\ Cardinality(DefaultAccounts("new_user")) = 1
        /\ storageErrors = 0

\* C30: however calls of resolveCategoryId for the same name overlap, as long
\* as no storage call has failed no call fails, and every call that returned
\* has returned the id of the one category of that name.
C30_CategoryRaceSucceeds ==
    \A s \in SaverIds :
        /\ (saves[s].categoryId.pc = "failed" => storageErrors > 0)
        /\ saves[s].categoryId.pc = "done" =>
              {r \in categories : r.name = saves[s].category}
                  = {r \in categories : r.id = saves[s].categoryId.id}

\* --------------------------------------------------------------------------
\* C31: a claimed message of a kind other than text, audio or image goes from
\* the claim straight to markMessageProcessed: no media is fetched, no
\* extraction runs, nothing is persisted and no reply is sent; the attempt is
\* answered 200 'processed', and the ledger record is completed by that
\* update when the update is written.
\* --------------------------------------------------------------------------
SupportedKinds == {"text", "text_nobody", "audio", "audio_nomedia", "image"}
OtherKinds == {"sticker"}

C31_OtherKindsAreSkipped ==
    /\ \A w \in WorkerIds :
          workers[w].claimed = "true" /\ workers[w].type \in OtherKinds =>
              /\ workers[w].pc = "markMessageProcessed"
              /\ workers[w].parsed = "none"
              /\ sent[workers[w].wamid] = <<>>
              /\ transactions[workers[w].wamid] = 0
    /\ response.claimed = "true" /\ response.type \in OtherKinds =>
          /\ response.status = 200 /\ response.body = "processed"
          /\ response.parsed = "none"
          /\ sent[response.wamid] = <<>>
          /\ transactions[response.wamid] = 0
          /\ response.ledger \in {"ok", "error"}
          /\ (response.ledger = "ok" => processed_messages[response.wamid].processed)
          /\ processed_messages[response.wamid].error = "null"

\* a sticker was claimed, skipped, completed and answered 200 'processed'
C31_Witness ==
    /\ response.type = "sticker" /\ response.claimed = "true"
    /\ response.status = 200 /\ response.body = "processed"
    /\ processed_messages[response.wamid].processed
    /\ sent[response.wamid] = <<>> /\ transactions[response.wamid] = 0

\* --------------------------------------------------------------------------
\* C32: every claimed text, audio or image message whose attempt is answered
\* 200 'processed' has been given exactly one reply in that attempt: the
\* confirmation if a transaction was saved, the help message otherwise. The
\* kinds include a text message without body and an audio message without
\* media reference.
\* --------------------------------------------------------------------------
C32_ProcessedHasOneReply ==
    (/\ response.claimed = "true" /\ response.type \in SupportedKinds
     /\ response.status = 200 /\ response.body = "processed")
    => /\ Len(sent[response.wamid]) = 1
       /\ sent[response.wamid] =
             IF transactions[response.wamid] > 0 THEN <<"confirm">> ELSE <<"help">>

\* --------------------------------------------------------------------------
\* C33: validateWebhookSignature returns a boolean for every input and never
\* raises; it returns false for a missing header, for a header without the
\* 'sha256=' tag, for a digest of the wrong length and for a digest of the
\* right length that holds a character that is not a hex digit.
\* --------------------------------------------------------------------------
HasNonHex(s) == \E i \in 1..Len(s) : HexVal(s[i]) < 0

C33_AlwaysBoolean ==
    sigCall.result # "none" =>
        /\ sigCall.result \in {"true", "false"}
        /\ LET signature == sigCall.signature
               malformed ==
                   \/ signature = Undefined
                   \/ ~StartsWith(signature, Tag256)
                   \/ Len(Slice(signature, Len(Tag256))) # 2 * DigestBytes
                   \/ HasNonHex(Slice(signature, Len(Tag256)))
           IN  malformed => sigCall.result = "false"

\* --------------------------------------------------------------------------
\* C34: both handlers verify the signature over the text received: the string
\* handed to the verifier is the request's raw body, in the thin webhook
\* handler and in the worker, also when the platform has parsed the body; so
\* a delivery the broker signed with a configured key is never refused.
\* --------------------------------------------------------------------------
C34_VerifiesRawBody ==
    rawCall.result # "none" =>
        /\ rawCall.rawBody = getRawBody(rawCall.chunks)
        /\ (/\ rawCall.handler = "process-message"
            /\ rawCall.signature.key \in {"current", "next"})
           => rawCall.result = "verified"

\* --------------------------------------------------------------------------
\* C35: the error text markMessageError writes to a ledger record is the
\* first 500 characters of the error message: it is never longer than 500
\* characters, and it is the whole message when that has at most 500.
\* --------------------------------------------------------------------------
C35_ErrorTextIsCut ==
    \A m \in MsgIds :
        LET error == processed_messages[m].error
            errorMessage == errorCall.errorMessage
        IN  error # "null" =>
                /\ errorCall.done /\ m = errorCall.wamid
                /\ Len(error) <= 500
                /\ error = Message(IF Len(errorMessage) < 500 THEN Len(errorMessage)
                                   ELSE 500)
                /\ (Len(errorMessage) <= 500 => error = errorMessage)

\* a message of more than 500 characters was written as its first 500
C35_Witness ==
    /\ errorCall.done
    /\ Len(errorCall.errorMessage) > 500
    /\ Len(processed_messages[errorCall.wamid].error) = 500
    /\ processed_messages[errorCall.wamid].error # errorCall.errorMessage

\* --------------------------------------------------------------------------
\* C36: every ParsedExpense returned by parseExpenseRegex, parseExpenseLLM or
\* parseExpense has amount > 0; and parseExpenseRegex answers null for a
\* message no pattern matches and for one whose amounts are all negative or
\* not a number above 0.
\* --------------------------------------------------------------------------
Matches(message) == \E i \in 0..4 : Match(i, message).matched

C36_AmountIsPositive ==
    parseCall.done =>
        /\ ~parseCall.result.null => GreaterThanZero(parseCall.result.amount)
        /\ (/\ parseCall.fn = "parseExpenseRegex"
            /\ \/ ~Matches(parseCall.message)
               \/ \A i \in 1..Len(parseCall.message) :
                     LET token == parseCall.message[i]
                     IN  token.kind = "amount" =>
                            ~GreaterThanZero(NumberValue(parseArgNumberNaN(token.text))))
           => parseCall.result.null

\* --------------------------------------------------------------------------
\* C37: no ledger record is both completed and marked with an error. Only the
\* one attempt that won the claim of a message id is ever on the way to
\* markMessageProcessed or markMessageError, and once the record shows the
\* outcome of either that attempt is over.
\* --------------------------------------------------------------------------
Winners(m) == {w \in WorkerIds : workers[w].wamid = m /\ workers[w].claimed = "true"}

C37_CompletedOrErrorNeverBoth ==
    \A m \in MsgIds :
        /\ ~(processed_messages[m].processed /\ processed_messages[m].error # "null")
        /\ claims[m] <= 1
        /\ Cardinality(Winners(m)) <= 1
        /\ (processed_messages[m].processed \/ processed_messages[m].error # "null")
              => Winners(m) = {}

\* the winner's attempt failed and wrote the error; a later delivery of the
\* same message was answered as a duplicate and the record stays not completed
C37_Witness ==
    \E m \in MsgIds :
        /\ processed_messages[m].error = ErrorMsg
        /\ ~processed_messages[m].processed
        /\ claims[m] = 1
        /\ response.wamid = m
        /\ response.body = "duplicate"

\* --------------------------------------------------------------------------
\* C38: a completed ledger record means that the attempt that claimed the
\* message finished the whole pipeline: a transaction was persisted and the
\* confirmation sent, or the help reply was sent and nothing persisted, or
\* the message needed no action. A persisted transaction whose confirmation
\* failed leaves the record not completed and the transaction stored.
\* --------------------------------------------------------------------------
NoActionKinds == {"text_nobody", "audio_nomedia", "sticker"}

C38_CompletedMeansFinished ==
    /\ \A m \in MsgIds :
          /\ processed_messages[m].processed =>
                \/ transactions[m] = 1 /\ sent[m] = <<"confirm">>
                \/ transactions[m] = 0 /\ sent[m] = <<"help">>
                \/ transactions[m] = 0 /\ sent[m] = <<>>
          /\ transactions[m] >= 1 /\ sent[m] = <<>> => ~processed_messages[m].processed
    /\ LET m == response.wamid
       IN  /\ (response.body = "processed" /\ response.ledger = "ok") =>
                 /\ processed_messages[m].processed
                 /\ response.type \in NoActionKinds
                       => transactions[m] = 0 /\ sent[m] = <<>>
                 /\ response.type \notin NoActionKinds /\ response.parsed = "expense"
                       => transactions[m] = 1 /\ sent[m] = <<"confirm">>
                 /\ response.type \notin NoActionKinds /\ response.parsed = "null"
                       => transactions[m] = 0 /\ sent[m] = <<"help">>
           /\ (response.status = 500 /\ response.claimed = "true"
                  /\ transactions[m] >= 1) =>
                 /\ sent[m] = <<>>
                 /\ transactions[m] = 1
                 /\ ~processed_messages[m].processed

\* the transaction was inserted, the confirmation failed: the attempt ended
\* with 500, the error is on the record, the record is not completed and the
\* transaction is still there
C38_Witness ==
    /\ response.status = 500 /\ response.parsed = "expense"
    /\ transactions[response.wamid] = 1
    /\ sent[response.wamid] = <<>>
    /\ processed_messages[response.wamid].error = ErrorMsg
    /\ ~processed_messages[response.wamid].processed

\* --------------------------------------------------------------------------
\* C39: every provider POST that passes the signature check is answered by
\* the thin handler, with status 200, whatever the verified body holds: a
\* body that is not JSON and a "messages" change without metadata included.
\* The handler never leaves such a request with an exception.
\* --------------------------------------------------------------------------
C39_VerifiedPostIs200 ==
    (/\ ingress.pc = "done"
     /\ SignatureMatches(ingress.rawBody, ingress.signature))
        => /\ ingress.res.status = 200
           /\ ingress.res.body \in {"ignored", "no_messages", "queued"}

\* --------------------------------------------------------------------------
\* C40: in the synchronous handler of api/webhook.ts every POST ends with
\* exactly one response (another object tag, no messages, all messages
\* processed, a message whose processing throws), and every message of the
\* payload is processed, also after the processing of an earlier one failed.
\* --------------------------------------------------------------------------
C40_SyncAlwaysResponds ==
    /\ syncCall.pc = "returned" =>
          /\ syncCall.res # NoRes
          /\ Len(syncCall.outcomes) = Len(syncCall.messages)
    /\ \A i \in 1..Len(syncCall.log) : syncCall.log[i].status # 0

====
